---- MODULE Spec2Model ----
(***************************************************************************)
(* Model of the client-side history store of halara_menu_img               *)
(* (dbService: src/unnamed/part_001, types: src/unnamed/part_000).         *)
(*                                                                         *)
(* The IndexedDB object store "generations" is a set of records keyed by   *)
(* id.  Every dbService function opens one transaction per request; the    *)
(* browser executes the request (success or error event) and afterwards    *)
(* commits the transaction (complete event) or aborts it (abort event).    *)
(* A promise is settled by exactly the event handlers the function         *)
(* installs, so the model keeps the two events apart.                      *)
(***************************************************************************)
EXTENDS Integers, Sequences, FiniteSets, TLC

VARIABLES store, txn, call, ret

\* The database as the origin holds it (its version and the names of its
\* object stores), and the saveHistoryItem calls that run side by side.
VARIABLES db, puts

\* The App component (src/tests/e2e/image-persistence.spec.ts, from line 109):
\* the set activeUrlsRef.current, and for every object URL how often
\* URL.revokeObjectURL has been called on it.
VARIABLES activeUrls, revoked, lastOp

\* The React state of App (ui), its handlers that are suspended at an await
\* (tasks), whether the component is mounted, the object URLs created so far
\* by getAllHistory and handleGenerate (minted, in batches), and the number
\* of user events so far.
VARIABLES ui, tasks, mounted, minted, batches, events

dbVars == <<store, txn, call, ret, db, puts>>

uiVars == <<ui, tasks, mounted, minted, batches, events>>

appVars == <<activeUrls, revoked, lastOp, uiVars>>

vars == <<dbVars, appVars>>

(***************************************************************************)
(* Bounds of the model.                                                    *)
(***************************************************************************)
MaxTs == 2
MaxItems == 2
MaxRevokes == 2
MaxEvents == 3
MaxPuts == 2
MaxBytes == 8

(***************************************************************************)
(* Values.  Every JavaScript value the store handles is a record with a    *)
(* kind field k, so that values of different JavaScript types compare      *)
(* unequal.                                                                *)
(***************************************************************************)
DB_VERSION == 1

Undefined == [k |-> "undefined"]

Text(s) == [k |-> "text", s |-> s]

EmptyString == Text("")

Blob(type, bytes) == [k |-> "blob", type |-> type, bytes |-> bytes]

\* The string "data:<mime>;base64,<payload>"; payload is a sequence of
\* base64 digits 0..63, with 64 standing for the padding character "=".
DataUrl(mime, b64) == [k |-> "dataurl", mime |-> mime, b64 |-> b64]

\* A string that fetch() cannot load as a data: URL although it starts with
\* "data:" (its payload is not base64).
BrokenDataUrl == [k |-> "dataurl", mime |-> "image/png", b64 |-> <<65>>]

Pad == 64

\* JavaScript truthiness of the values above: undefined and "" are falsy.
Truthy(v) == v # Undefined /\ v # EmptyString

IsBlob(v) == v.k = "blob"

\* typeof s === 'string' && s.startsWith('data:')
StartsWithData(v) == v.k = "dataurl"

(***************************************************************************)
(* Binary/text codec.                                                      *)
(***************************************************************************)
RECURSIVE Base64Encode(_)
Base64Encode(bytes) ==
    IF Len(bytes) = 0 THEN <<>>
    ELSE IF Len(bytes) = 1 THEN
        << bytes[1] \div 4, (bytes[1] % 4) * 16, Pad, Pad >>
    ELSE IF Len(bytes) = 2 THEN
        << bytes[1] \div 4,
           (bytes[1] % 4) * 16 + bytes[2] \div 16,
           (bytes[2] % 16) * 4,
           Pad >>
    ELSE
        << bytes[1] \div 4,
           (bytes[1] % 4) * 16 + bytes[2] \div 16,
           (bytes[2] % 16) * 4 + bytes[3] \div 64,
           bytes[3] % 64 >> \o Base64Encode(SubSeq(bytes, 4, Len(bytes)))

RECURSIVE Base64Decode(_)
Base64Decode(d) ==
    IF Len(d) < 4 THEN <<>>
    ELSE
        LET b1 == d[1] * 4 + d[2] \div 16
            b2 == (d[2] % 16) * 16 + d[3] \div 4
            b3 == (d[3] % 4) * 64 + d[4]
        IN  IF d[3] = Pad THEN <<b1>>
            ELSE IF d[4] = Pad THEN <<b1, b2>>
            ELSE <<b1, b2, b3>> \o Base64Decode(SubSeq(d, 5, Len(d)))

\* Whether fetch() can load the string: the payload is whole base64 groups.
ValidBase64(d) == Len(d) % 4 = 0

\* FileReader.readAsDataURL(blob)
blobToBase64(blob) == DataUrl(blob.type, Base64Encode(blob.bytes))

\* (await fetch(dataUrl)).blob()
base64ToBlob(dataUrl) == Blob(dataUrl.mime, Base64Decode(dataUrl.b64))

(***************************************************************************)
(* Sample data: record ids, timestamps, blobs and record shapes.           *)
(***************************************************************************)
Ids == {"a", "b"}

\* Key order of the object store (IndexedDB orders string keys).
IdRank(id) == IF id = "a" THEN 1 ELSE IF id = "b" THEN 2 ELSE 3

Timestamps == 1 .. MaxTs

PngBlob == Blob("image/png", <<137, 80, 78>>)

JpgBlob == Blob("image/jpeg", <<255, 216>>)

GifBlob == Blob("image/gif", <<71, 73, 70, 56>>)

OneByteBlob == Blob("image/png", <<7>>)

LegacyDataUrl == DataUrl("image/png", Base64Encode(<<1, 2, 3, 4>>))

Thumb == DataUrl("image/jpeg", Base64Encode(<<255, 216, 255>>))

Variant(id, url, blob, ts) ==
    [id |-> id, url |-> url, blob |-> blob, timestamp |-> ts]

\* HistoryItem (src/unnamed/part_000).
HistoryItem(id, ts, metadata, sourceImage, variants, settings, thumbnail) ==
    [id |-> id, timestamp |-> ts, metadata |-> metadata,
     sourceImage |-> sourceImage, variants |-> variants,
     settings |-> settings, thumbnail |-> thumbnail]

Shapes == {"binary", "legacy", "bare"}

\* The records callers pass to saveHistoryItem: binary records as
\* handleGenerate builds them (variants carry live object URLs), and records
\* of older versions (string source image, variants without blob, no
\* thumbnail).
SampleItem(id, ts, shape) ==
    CASE shape = "binary" ->
           HistoryItem(id, ts, "m1", PngBlob,
                       << Variant("v1", "blob:in1", JpgBlob, ts),
                          Variant("v2", "blob:in2", OneByteBlob, 1) >>,
                       "s1", Thumb)
      [] shape = "legacy" ->
           HistoryItem(id, ts, "m2", LegacyDataUrl,
                       << Variant("v2", "blob:in3", Undefined, 1),
                          Variant("v1", "", GifBlob, ts) >>,
                       "s2", Undefined)
      [] OTHER ->
           HistoryItem(id, ts, "m1", Text("photo.png"), << >>, "s1", Thumb)

\* Binary records at every timestamp, a legacy and a bare record at one.
SampleItems ==
    { SampleItem(id, ts, "binary") : id \in Ids, ts \in Timestamps }
        \cup { SampleItem(id, 1, sh) : id \in Ids, sh \in {"legacy", "bare"} }

(***************************************************************************)
(* The object store: a set of stored records, keyed by id (keyPath "id").  *)
(***************************************************************************)
\* Faulty variant of StripUrls: the item is stored as the caller passed it.
KeepUrls(item) == item

\* saveHistoryItem's storageItem: the item with every variant url cleared.
StripUrls(item) ==
    [item EXCEPT !.variants =
        [i \in DOMAIN item.variants |-> [item.variants[i] EXCEPT !.url = ""]]]

\* Faulty variant of PutRecord: a store without a key path, where put only adds.
PutRecordAdd(s, r) == s \cup {r}

\* Faulty variant of PutRecord: the put replaces the whole contents.
PutRecordOnly(s, r) == {r}

\* IDBObjectStore.put on a store with keyPath "id": the record replaces the
\* record stored under the same key.
PutRecord(s, r) == { x \in s : x.id # r.id } \cup {r}

\* IDBObjectStore.delete(id)
DeleteRecord(s, id) == { x \in s : x.id # id }

\* IDBObjectStore.clear()
ClearRecords(s) == {}

\* IDBObjectStore.getAll(): the records in ascending key order.
RECURSIVE KeyOrdered(_)
KeyOrdered(s) ==
    IF s = {} THEN << >>
    ELSE LET first == CHOOSE x \in s : \A y \in s : IdRank(x.id) <= IdRank(y.id)
         IN  <<first>> \o KeyOrdered(s \ {first})

\* URL.createObjectURL for variant i of the p-th record read: a URL no other
\* variant of the read gets.
MintUrl(p, i) == "blob:" \o ToString(p) \o "-" \o ToString(i)

\* Faulty variant of Hydrate: every variant gets an object URL, blob or not.
HydrateAll(item, p) ==
    [item EXCEPT !.variants =
        [i \in DOMAIN item.variants |-> [item.variants[i] EXCEPT !.url = MintUrl(p, i)]]]

\* Faulty variant of Hydrate: the variants are built back to front.
HydrateReversed(item, p) ==
    [item EXCEPT !.variants =
        [i \in DOMAIN item.variants |->
            LET v == item.variants[Len(item.variants) + 1 - i]
            IN  [v EXCEPT !.url = IF Truthy(v.blob) THEN MintUrl(p, i) ELSE ""]]]

\* getAllHistory's map over one item: a variant with a blob gets a minted
\* object URL, any other the empty string.
Hydrate(item, p) ==
    [item EXCEPT !.variants =
        [i \in DOMAIN item.variants |->
            [item.variants[i] EXCEPT
                !.url = IF Truthy(item.variants[i].blob) THEN MintUrl(p, i) ELSE ""]]]

\* Array.prototype.sort with (a, b) => b.timestamp - a.timestamp: a stable
\* sort, so records of equal timestamp keep their order.
\* Faulty variant of InsertDesc: the comparator a.timestamp - b.timestamp.
RECURSIVE InsertAsc(_, _)
InsertAsc(x, sorted) ==
    IF sorted = << >> THEN <<x>>
    ELSE IF x.timestamp - Head(sorted).timestamp < 0
         THEN <<x>> \o sorted
         ELSE <<Head(sorted)>> \o InsertAsc(x, Tail(sorted))

RECURSIVE InsertDesc(_, _)
InsertDesc(x, sorted) ==
    IF sorted = << >> THEN <<x>>
    ELSE IF Head(sorted).timestamp - x.timestamp < 0
         THEN <<x>> \o sorted
         ELSE <<Head(sorted)>> \o InsertDesc(x, Tail(sorted))

RECURSIVE SortDesc(_)
SortDesc(items) ==
    IF items = << >> THEN << >>
    ELSE InsertDesc(items[Len(items)], SortDesc(SubSeq(items, 1, Len(items) - 1)))

\* The value getAllHistory resolves with.
GetAllResult(s) ==
    LET items == KeyOrdered(s)
    IN  SortDesc([p \in DOMAIN items |-> Hydrate(items[p], p)])

(***************************************************************************)
(* Export documents.  A JSON object is a record that has exactly the       *)
(* properties JSON.stringify writes, a JSON array is wrapped so that       *)
(* Array.isArray can tell it from other values, and a text is either the   *)
(* JSON text of a value or a text JSON.parse rejects.                      *)
(***************************************************************************)
JsonNull == [k |-> "null"]

JsonArray(elems) == [k |-> "array", elems |-> elems]

JsonText(value) == [k |-> "json", value |-> value]

Garbage == [k |-> "garbage"]

\* Reading a property of a parsed object: undefined when it is absent.
Prop(obj, key) == IF key \in DOMAIN obj THEN obj[key] ELSE Undefined

\* JSON.stringify leaves out a property whose value is undefined.  Of the
\* exported properties only thumbnail is optional (thumbnail?: string).
JsonItem(e) ==
    IF e.thumbnail = Undefined
    THEN [f \in DOMAIN e \ {"thumbnail"} |-> e[f]]
    ELSE e

\* Faulty variant of ExportItem: every variant with a blob gets an object URL,
\* as in getAllHistory.
ExportItemHydrated(item) ==
    [id |-> item.id,
     timestamp |-> item.timestamp,
     metadata |-> item.metadata,
     sourceImage |-> IF IsBlob(item.sourceImage)
                     THEN blobToBase64(item.sourceImage)
                     ELSE item.sourceImage,
     variants |-> [i \in DOMAIN item.variants |->
                     [id |-> item.variants[i].id,
                      url |-> IF Truthy(item.variants[i].blob) THEN MintUrl(1, i) ELSE "",
                      blob |-> IF Truthy(item.variants[i].blob)
                               THEN blobToBase64(item.variants[i].blob)
                               ELSE EmptyString,
                      timestamp |-> item.variants[i].timestamp]],
     settings |-> item.settings,
     thumbnail |-> item.thumbnail]

\* Faulty variant of ExportItem: the test v.blob ? ... : '' is left out, so
\* a variant without a blob is exported as it is stored.
ExportItemUnchecked(item) ==
    [id |-> item.id,
     timestamp |-> item.timestamp,
     metadata |-> item.metadata,
     sourceImage |-> IF IsBlob(item.sourceImage)
                     THEN blobToBase64(item.sourceImage)
                     ELSE item.sourceImage,
     variants |-> [i \in DOMAIN item.variants |->
                     [id |-> item.variants[i].id,
                      blob |-> IF IsBlob(item.variants[i].blob)
                               THEN blobToBase64(item.variants[i].blob)
                               ELSE item.variants[i].blob,
                      timestamp |-> item.variants[i].timestamp]],
     settings |-> item.settings,
     thumbnail |-> item.thumbnail]

\* exportAllData's map over one stored item.
ExportItem(item) ==
    [id |-> item.id,
     timestamp |-> item.timestamp,
     metadata |-> item.metadata,
     sourceImage |-> IF IsBlob(item.sourceImage)
                     THEN blobToBase64(item.sourceImage)
                     ELSE item.sourceImage,
     variants |-> [i \in DOMAIN item.variants |->
                     [id |-> item.variants[i].id,
                      blob |-> IF Truthy(item.variants[i].blob)
                               THEN blobToBase64(item.variants[i].blob)
                               ELSE EmptyString,
                      timestamp |-> item.variants[i].timestamp]],
     settings |-> item.settings,
     thumbnail |-> item.thumbnail]

\* The items array of the document exportAllData builds from store s.
ExportItems(s) ==
    LET items == KeyOrdered(s)
    IN  [p \in DOMAIN items |-> JsonItem(ExportItem(items[p]))]

\* The text exportAllData resolves with at time now.
ExportText(s, now) ==
    JsonText([version |-> DB_VERSION, exportedAt |-> now,
              items |-> JsonArray(ExportItems(s))])

\* Faulty variant of InvalidBackup: the check without Array.isArray.
InvalidBackupNoArrayCheck(data) ==
    Prop(data, "items") \in {Undefined, JsonNull, EmptyString}

\* importData's check of the parsed document:
\*   !data.items || !Array.isArray(data.items)
InvalidBackup(data) ==
    LET items == Prop(data, "items")
    IN  \/ items \in {Undefined, JsonNull, EmptyString}
        \/ items.k # "array"

\* Whether decoding item fails: fetch() rejects a data: URL whose payload
\* is not base64.
Loadable(s) == s.k # "dataurl" \/ (ValidBase64(s.b64) /\ \A i \in DOMAIN s.b64 : s.b64[i] \in 0 .. Pad)

\* item.variants.map throws when the item has no variants array.
DecodeFails(item) ==
    IF "variants" \notin DOMAIN item THEN TRUE
    ELSE \/ ~Loadable(item.sourceImage)
         \/ \E i \in DOMAIN item.variants : ~Loadable(item.variants[i].blob)

\* Faulty variant of ImportedItem: a variant's empty blob string is stored as
\* it is.
ImportedItemEmptyBlob(item) ==
    [id |-> item.id,
     timestamp |-> item.timestamp,
     metadata |-> item.metadata,
     sourceImage |-> IF StartsWithData(item.sourceImage)
                     THEN base64ToBlob(item.sourceImage)
                     ELSE item.sourceImage,
     variants |-> [i \in DOMAIN item.variants |->
                     [id |-> item.variants[i].id,
                      url |-> "",
                      blob |-> IF Truthy(item.variants[i].blob)
                               THEN base64ToBlob(item.variants[i].blob)
                               ELSE item.variants[i].blob,
                      timestamp |-> item.variants[i].timestamp]],
     settings |-> item.settings,
     thumbnail |-> Prop(item, "thumbnail")]

\* The HistoryItem importData builds from one item of the document.
ImportedItem(item) ==
    [id |-> item.id,
     timestamp |-> item.timestamp,
     metadata |-> item.metadata,
     sourceImage |-> IF StartsWithData(item.sourceImage)
                     THEN base64ToBlob(item.sourceImage)
                     ELSE item.sourceImage,
     variants |-> [i \in DOMAIN item.variants |->
                     [id |-> item.variants[i].id,
                      url |-> "",
                      blob |-> IF Truthy(item.variants[i].blob)
                               THEN base64ToBlob(item.variants[i].blob)
                               ELSE Undefined,
                      timestamp |-> item.variants[i].timestamp]],
     settings |-> item.settings,
     thumbnail |-> Prop(item, "thumbnail")]

\* The store after the first n items of a document were put into store s.
RECURSIVE ItemsApplied(_, _, _)
ItemsApplied(s, items, n) ==
    IF n = 0 THEN s
    ELSE PutRecord(ItemsApplied(s, items, n - 1), ImportedItem(items[n]))

(***************************************************************************)
(* The documents handed to importData.                                     *)
(***************************************************************************)
\* The item exportAllData writes for record x as saveHistoryItem stores it.
Exported(x) == JsonItem(ExportItem(StripUrls(x)))

\* An item whose source image is a data: URL that cannot be decoded.
BadItem == [Exported(SampleItem("a", 1, "bare")) EXCEPT !.sourceImage = BrokenDataUrl]

\* An item of a hand-edited document: its variants still carry a url.
UrlItem ==
    [Exported(SampleItem("b", 1, "legacy")) EXCEPT
        !.variants = [i \in DOMAIN @ |->
            [id |-> @[i].id, url |-> "blob:stale", blob |-> @[i].blob,
             timestamp |-> @[i].timestamp]]]

\* An item whose source image is a plain string (a file name), and an item
\* whose source image is a data: URL string and whose first variant has the
\* empty string as blob.
PlainItem ==
    [Exported(SampleItem("a", 1, "legacy")) EXCEPT !.sourceImage = Text("photo.png")]

ImportItems ==
    { Exported(SampleItem("a", 1, "binary")),
      Exported(SampleItem("b", MaxTs, "binary")),
      UrlItem,
      PlainItem,
      BadItem }

SeqsUpTo(S, n) == UNION { [1 .. m -> S] : m \in 0 .. n }

ValidDocs ==
    { JsonText([version |-> DB_VERSION, exportedAt |-> 1, items |-> JsonArray(q)]) :
        q \in SeqsUpTo(ImportItems, MaxItems) }

\* Documents without a usable items array: no items property, items a
\* string, items null.
NoItemsDoc == JsonText([version |-> DB_VERSION, exportedAt |-> 1])

ItemsStringDoc == JsonText([version |-> DB_VERSION, exportedAt |-> 1, items |-> Text("oops")])

ItemsNullDoc == JsonText([version |-> DB_VERSION, exportedAt |-> 1, items |-> JsonNull])

Docs == ValidDocs \cup {NoItemsDoc, ItemsStringDoc, ItemsNullDoc, Garbage}

(***************************************************************************)
(* The object-URL tracker of App.  activeUrlsRef.current is a JavaScript   *)
(* Set: its elements in insertion order, none twice.  The browser's side   *)
(* is the number of URL.revokeObjectURL calls made on each URL.            *)
(***************************************************************************)
NoRevocations == [h \in {} |-> 0]

\* How often URL.revokeObjectURL was called on url.
Count(f, url) == IF url \in DOMAIN f THEN f[url] ELSE 0

\* URL.revokeObjectURL(url)
RevokeObjectURL(f, url) ==
    [h \in DOMAIN f \cup {url} |-> IF h = url THEN Count(f, h) + 1 ELSE f[h]]

\* Set.prototype.has
Has(set, url) == \E i \in DOMAIN set : set[i] = url

\* Faulty variant of SetAdd: an array push.
SetPush(set, url) == Append(set, url)

\* Set.prototype.add
SetAdd(set, url) == IF Has(set, url) THEN set ELSE Append(set, url)

\* Set.prototype.delete
SetDelete(set, url) == SelectSeq(set, LAMBDA x : x # url)

\* The tracker as one value: the set and the browser's revocation counts.
Tracker(set, f) == [active |-> set, revoked |-> f]

\* trackUrl: activeUrlsRef.current.add(url)
trackUrl(t, url) == [t EXCEPT !.active = SetAdd(@, url)]

\* Faulty variant of revokeUrl: no test whether the url is tracked.
revokeUrlUnchecked(t, url) ==
    Tracker(SetDelete(t.active, url), RevokeObjectURL(t.revoked, url))

\* revokeUrl: if (activeUrlsRef.current.has(url)) { URL.revokeObjectURL(url);
\* activeUrlsRef.current.delete(url); }
revokeUrl(t, url) ==
    IF Has(t.active, url)
    THEN Tracker(SetDelete(t.active, url), RevokeObjectURL(t.revoked, url))
    ELSE t

RECURSIVE RevokeEach(_, _)
RevokeEach(f, urls) ==
    IF urls = << >> THEN f
    ELSE RevokeEach(RevokeObjectURL(f, Head(urls)), Tail(urls))

\* Faulty variant of revokeAllUrls: the set is not cleared.
revokeAllUrlsNoClear(t) == Tracker(t.active, RevokeEach(t.revoked, t.active))

\* revokeAllUrls: forEach(url => URL.revokeObjectURL(url)), then clear().
revokeAllUrls(t) == Tracker(<< >>, RevokeEach(t.revoked, t.active))

\* The tracker operation made last, with the tracker as it was before it and
\* the operations made before it (the last three are kept).
NoOp == [ops |-> << >>, active |-> << >>, revoked |-> NoRevocations]

Logged(op, url) ==
    [ops |-> LET all == Append(lastOp.ops, [op |-> op, url |-> url])
             IN  IF Len(all) > 3 THEN Tail(all) ELSE all,
     active |-> activeUrls,
     revoked |-> revoked]

(***************************************************************************)
(* The React state of App and its suspended handlers.                      *)
(***************************************************************************)
Slots == {1, 2}

\* useState initial values: no source image, no metadata, no results, an
\* empty history list, no current history id, one variant per generation.
InitialUi ==
    [sourceImage |-> JsonNull, sourceBlob |-> JsonNull, metadata |-> JsonNull,
     results |-> << >>, history |-> << >>, currentHistoryId |-> JsonNull,
     settings |-> "s1", isAnalyzing |-> FALSE, isExporting |-> FALSE]

\* The "Render Assets" button: disabled={!metadata || isAnalyzing}
RenderDisabled(state) == state.metadata = JsonNull \/ state.isAnalyzing

\* Faulty variant of ExportDisabled: disabled={isExporting}
ExportDisabledWhileExporting(state) == state.isExporting

\* The "Export Backup" button: disabled={isExporting || history.length === 0}
ExportDisabled(state) == state.isExporting \/ Len(state.history) = 0

\* A state value that is not null: the metadata object.
Meta(m) == [k |-> "object", value |-> m]

\* settings.numberOfVariants of the two settings values.
NumberOfVariants(settings) == IF settings = "s1" THEN 1 ELSE 2

Range(seq) == { seq[i] : i \in DOMAIN seq }

Take(seq, n) == SubSeq(seq, 1, IF Len(seq) < n THEN Len(seq) ELSE n)

\* items.forEach(item => item.variants.forEach(v => { if (v.url) ... })): the
\* urls visited, in order.
RECURSIVE VariantUrls(_)
VariantUrls(items) ==
    IF items = << >> THEN << >>
    ELSE SelectSeq([i \in DOMAIN Head(items).variants |-> Head(items).variants[i].url],
                   LAMBDA u : u # "")
            \o VariantUrls(Tail(items))

\* results.forEach(r => ... r.url ...): the urls visited, empty ones too.
ResultUrls(results) == [i \in DOMAIN results |-> results[i].url]

\* Faulty variant of RevokeUrls: revokeAllUrls in place of the loop.
RevokeUrlsAll(t, urls) == revokeAllUrls(t)

\* urls.forEach(url => revokeUrl(url))
RECURSIVE RevokeUrls(_, _)
RevokeUrls(t, urls) ==
    IF urls = << >> THEN t
    ELSE RevokeUrls(revokeUrl(t, Head(urls)), Tail(urls))

\* Faulty variant of TrackUrls: the last url of the list is left out.
RECURSIVE TrackUrlsButLast(_, _)
TrackUrlsButLast(t, urls) ==
    IF Len(urls) <= 1 THEN t
    ELSE TrackUrlsButLast(trackUrl(t, Head(urls)), Tail(urls))

\* urls.forEach(url => trackUrl(url))
RECURSIVE TrackUrls(_, _)
TrackUrls(t, urls) ==
    IF urls = << >> THEN t
    ELSE TrackUrls(trackUrl(t, Head(urls)), Tail(urls))

\* The value getAllHistory resolves with when base object URLs batches were
\* created before: URL.createObjectURL never returns a url twice.
HydratedFrom(s, base) ==
    LET items == KeyOrdered(s)
    IN  SortDesc([p \in DOMAIN items |-> Hydrate(items[p], base + p)])

\* generateId(): Math.random().toString(36).substr(2, 9), an id no variant
\* made before has.
GenerateId(b, j) == "g" \o ToString(b) \o "-" \o ToString(j)

\* No handler is suspended.  The suspended handlers are kept in the order
\* they were started in.
NoTasks == << >>

(***************************************************************************)
(* State.                                                                  *)
(*   store  the committed contents of the object store                     *)
(*   txn    the read-write transaction in flight, with the contents it     *)
(*          will commit                                                    *)
(*   call   the dbService call made last: its arguments and progress, and  *)
(*          the store contents when it was made                            *)
(*   ret    how the promise of that call stands                            *)
(***************************************************************************)
NoTxn == [state |-> "none"]

STORE_NAME == "generations"

\* No database of the name exists: indexedDB.open sees version 0.
NoDatabase == [version |-> 0, stores |-> {}]

\* Faulty variant of initDB: the object store is created anew at every open.
initDBRecreate(d, s) ==
    [db |-> [version |-> DB_VERSION, stores |-> d.stores \cup {STORE_NAME}],
     records |-> {}]

\* initDB when indexedDB.open(DB_NAME, DB_VERSION) succeeds, on database d
\* whose object store holds the records s: onupgradeneeded runs when the
\* database is older than DB_VERSION and creates the object store unless the
\* database contains it; an object store that exists keeps its records.
initDB(d, s) ==
    IF d.version < DB_VERSION
    THEN [db |-> [version |-> DB_VERSION, stores |-> d.stores \cup {STORE_NAME}],
          records |-> IF STORE_NAME \in d.stores THEN s ELSE {}]
    ELSE [db |-> d, records |-> s]

\* const db = await initDB(), the open succeeding.
Opened ==
    /\ db' = initDB(db, store).db
    /\ store' = initDB(db, store).records

\* No saveHistoryItem calls run side by side.
NoPuts == [calls |-> << >>, order |-> << >>, log |-> << >>, before |-> {}]

NoArg == [k |-> "none"]

Pending == [status |-> "pending"]

Resolved(value) == [status |-> "resolved", value |-> value]

Rejected(error) == [status |-> "rejected", error |-> error]

NewCall(op, arg, pc) ==
    [op |-> op, arg |-> arg, pc |-> pc, k |-> 1, importedCount |-> 0,
     committed |-> 0,
     before |-> IF op \in {"getAll", "export"} THEN {} ELSE store,
     afterClear |-> op = "getAll" /\ call.op = "clear" /\ ret.status = "resolved"]

\* No call is running and no transaction is in flight: requests of a new
\* transaction on the store run only after the earlier transaction ended.
Idle == call.pc \in {"done", "hung"} /\ txn = NoTxn

NoCall ==
    [op |-> "none", arg |-> NoArg, pc |-> "done", k |-> 1,
     importedCount |-> 0, committed |-> 0, before |-> {}, afterClear |-> FALSE]

Init ==
    /\ store = {}
    /\ txn = NoTxn
    /\ call = NoCall
    /\ ret = [status |-> "none"]
    /\ db = NoDatabase
    /\ puts = NoPuts
    /\ activeUrls = << >>
    /\ revoked = NoRevocations
    /\ lastOp = NoOp
    /\ ui = InitialUi
    /\ tasks = NoTasks
    /\ mounted = FALSE
    /\ minted = {}
    /\ batches = 0
    /\ events = 0

(***************************************************************************)
(* saveHistoryItem                                                         *)
(***************************************************************************)
\* store.put(storageItem) in a readwrite transaction.
CallPut(item) ==
    /\ Idle
    /\ call' = NewCall("put", item, "wait")
    /\ txn' = [state |-> "active", owner |-> "put",
               staged |-> PutRecord(initDB(db, store).records, StripUrls(item))]
    /\ ret' = Pending
    /\ Opened
    /\ UNCHANGED <<puts, appVars>>

\* transaction.oncomplete = () => resolve()
PutComplete ==
    /\ call.op = "put" /\ call.pc = "wait"
    /\ store' = txn.staged
    /\ txn' = NoTxn
    /\ call' = [call EXCEPT !.pc = "done"]
    /\ ret' = Resolved(Undefined)
    /\ UNCHANGED <<db, puts, appVars>>

\* The put request fails: its error event reaches transaction.onerror,
\* which rejects, and the transaction aborts.
PutRequestError ==
    /\ call.op = "put" /\ call.pc = "wait"
    /\ txn' = NoTxn
    /\ call' = [call EXCEPT !.pc = "done"]
    /\ ret' = Rejected("request.error")
    /\ UNCHANGED store
    /\ UNCHANGED <<db, puts, appVars>>

\* The transaction aborts at commit: only an abort event fires, for which
\* saveHistoryItem installs no handler, so its promise is never settled.
PutAbort ==
    /\ call.op = "put" /\ call.pc = "wait"
    /\ txn' = NoTxn
    /\ call' = [call EXCEPT !.pc = "hung"]
    /\ UNCHANGED <<store, ret>>
    /\ UNCHANGED <<db, puts, appVars>>

(***************************************************************************)
(* getAllHistory                                                           *)
(***************************************************************************)
\* request.onsuccess: hydrate, sort, resolve.
GetAll ==
    /\ Idle
    /\ call' = NewCall("getAll", NoArg, "done")
    /\ ret' = Resolved(GetAllResult(initDB(db, store).records))
    /\ Opened
    /\ UNCHANGED txn
    /\ UNCHANGED <<puts, appVars>>

\* request.onerror = () => reject(request.error)
GetAllError ==
    /\ Idle
    /\ call' = NewCall("getAll", NoArg, "done")
    /\ ret' = Rejected("request.error")
    /\ Opened
    /\ UNCHANGED txn
    /\ UNCHANGED <<puts, appVars>>

(***************************************************************************)
(* deleteHistoryItem, clearAllHistory                                      *)
(***************************************************************************)
\* store.delete(id) in a readwrite transaction.
CallDelete(id) ==
    /\ Idle
    /\ call' = NewCall("delete", Text(id), "wait")
    /\ txn' = [state |-> "active", owner |-> "delete",
               staged |-> DeleteRecord(initDB(db, store).records, id)]
    /\ ret' = Pending
    /\ Opened
    /\ UNCHANGED <<puts, appVars>>

\* store.clear() in a readwrite transaction.
CallClear ==
    /\ Idle
    /\ call' = NewCall("clear", NoArg, "wait")
    /\ txn' = [state |-> "active", owner |-> "clear",
               staged |-> ClearRecords(initDB(db, store).records)]
    /\ ret' = Pending
    /\ Opened
    /\ UNCHANGED <<puts, appVars>>

\* request.onsuccess = () => resolve(): the promise resolves when the
\* request has run, before the transaction commits.
RemoveRequestSuccess ==
    /\ call.op \in {"delete", "clear"} /\ call.pc = "wait"
    /\ txn' = [txn EXCEPT !.state = "finishing"]
    /\ call' = [call EXCEPT !.pc = "done"]
    /\ ret' = Resolved(Undefined)
    /\ UNCHANGED store
    /\ UNCHANGED <<db, puts, appVars>>

\* request.onerror = () => reject(request.error); the transaction aborts.
RemoveRequestError ==
    /\ call.op \in {"delete", "clear"} /\ call.pc = "wait"
    /\ txn' = NoTxn
    /\ call' = [call EXCEPT !.pc = "done"]
    /\ ret' = Rejected("request.error")
    /\ UNCHANGED store
    /\ UNCHANGED <<db, puts, appVars>>

(***************************************************************************)
(* The end of a transaction whose requests have all succeeded.  Delete,    *)
(* clear and import install no handler on the transaction.                 *)
(***************************************************************************)
TxnComplete ==
    /\ txn.state = "finishing"
    /\ store' = txn.staged
    /\ txn' = NoTxn
    /\ call' = IF txn.owner = "import"
               THEN [call EXCEPT !.committed = @ + 1]
               ELSE call
    /\ UNCHANGED ret
    /\ UNCHANGED <<db, puts, appVars>>

TxnAbort ==
    /\ txn.state = "finishing"
    /\ txn' = NoTxn
    /\ UNCHANGED <<store, call, ret>>
    /\ UNCHANGED <<db, puts, appVars>>

(***************************************************************************)
(* exportAllData                                                           *)
(***************************************************************************)
Export(now) ==
    /\ Idle
    /\ call' = NewCall("export", NoArg, "done")
    /\ ret' = Resolved(ExportText(initDB(db, store).records, now))
    /\ Opened
    /\ UNCHANGED txn
    /\ UNCHANGED <<puts, appVars>>

ExportError ==
    /\ Idle
    /\ call' = NewCall("export", NoArg, "done")
    /\ ret' = Rejected("request.error")
    /\ Opened
    /\ UNCHANGED txn
    /\ UNCHANGED <<puts, appVars>>

(***************************************************************************)
(* importData                                                              *)
(***************************************************************************)
\* for (const item of data.items): the elements of an array; a string
\* iterates as its characters.
DocItems(doc) ==
    IF doc.value.items.k = "array"
    THEN doc.value.items.elems
    ELSE << Text("o"), Text("o"), Text("p"), Text("s") >>

\* const data = JSON.parse(jsonString), then the check of data.items.
DocumentRejected(doc) ==
    IF doc.k # "json" THEN TRUE ELSE InvalidBackup(doc.value)

\* JSON.parse throws, or the document has no items array: the call rejects
\* before the database is opened.
ImportRejectsDocument(doc) ==
    /\ Idle
    /\ DocumentRejected(doc)
    /\ call' = NewCall("import", doc, "done")
    /\ ret' = Rejected(IF doc = Garbage THEN "SyntaxError" ELSE "Invalid backup format")
    /\ UNCHANGED <<store, txn>>
    /\ UNCHANGED <<db, puts, appVars>>

ImportStart(doc) ==
    /\ Idle
    /\ ~DocumentRejected(doc)
    /\ call' = NewCall("import", doc, "loop")
    /\ ret' = Pending
    /\ Opened
    /\ UNCHANGED txn
    /\ UNCHANGED <<puts, appVars>>

\* Decoding item k fails: the await throws and importData rejects.
ImportDecodeFails ==
    /\ call.op = "import" /\ call.pc = "loop" /\ txn = NoTxn
    /\ call.k <= Len(DocItems(call.arg))
    /\ DecodeFails(DocItems(call.arg)[call.k])
    /\ call' = [call EXCEPT !.pc = "done"]
    /\ ret' = Rejected("fetch failed")
    /\ UNCHANGED <<store, txn>>
    /\ UNCHANGED <<db, puts, appVars>>

\* Faulty variant of ImportPut: the item is put into an emptied store.
ImportPutOverEmpty ==
    /\ call.op = "import" /\ call.pc = "loop" /\ txn = NoTxn
    /\ call.k <= Len(DocItems(call.arg))
    /\ ~DecodeFails(DocItems(call.arg)[call.k])
    /\ txn' = [state |-> "active", owner |-> "import",
               staged |-> PutRecord(IF call.k = 1 THEN {} ELSE store,
                                    ImportedItem(DocItems(call.arg)[call.k]))]
    /\ call' = [call EXCEPT !.pc = "wait"]
    /\ UNCHANGED <<store, ret>>
    /\ UNCHANGED <<db, puts, appVars>>

\* Item k is decoded and store.put(historyItem) is issued in a transaction
\* of its own.
ImportPut ==
    /\ call.op = "import" /\ call.pc = "loop" /\ txn = NoTxn
    /\ call.k <= Len(DocItems(call.arg))
    /\ ~DecodeFails(DocItems(call.arg)[call.k])
    /\ txn' = [state |-> "active", owner |-> "import",
               staged |-> PutRecord(store, ImportedItem(DocItems(call.arg)[call.k]))]
    /\ call' = [call EXCEPT !.pc = "wait"]
    /\ UNCHANGED <<store, ret>>
    /\ UNCHANGED <<db, puts, appVars>>

\* request.onsuccess = () => { importedCount++; resolve(); }
ImportRequestSuccess ==
    /\ call.op = "import" /\ call.pc = "wait"
    /\ txn' = [txn EXCEPT !.state = "finishing"]
    /\ call' = [call EXCEPT !.pc = "loop", !.k = @ + 1, !.importedCount = @ + 1]
    /\ UNCHANGED <<store, ret>>
    /\ UNCHANGED <<db, puts, appVars>>

\* request.onerror = () => reject(request.error)
ImportRequestError ==
    /\ call.op = "import" /\ call.pc = "wait"
    /\ txn' = NoTxn
    /\ call' = [call EXCEPT !.pc = "done"]
    /\ ret' = Rejected("request.error")
    /\ UNCHANGED store
    /\ UNCHANGED <<db, puts, appVars>>

\* return importedCount
ImportReturn ==
    /\ call.op = "import" /\ call.pc = "loop"
    /\ call.k > Len(DocItems(call.arg))
    /\ call' = [call EXCEPT !.pc = "done"]
    /\ ret' = Resolved(call.importedCount)
    /\ UNCHANGED <<store, txn>>
    /\ UNCHANGED <<db, puts, appVars>>

(***************************************************************************)
(* initDB rejects: request.onerror = () => reject(request.error).  Every    *)
(* dbService function awaits initDB() before it opens a transaction, so    *)
(* the function's promise rejects with the error of the open request.      *)
(***************************************************************************)
\* The calls that await initDB(): importData does so after it has parsed and
\* checked the document.
OpenCalls ==
    { [op |-> "put", arg |-> item] : item \in SampleItems }
        \cup { [op |-> "delete", arg |-> Text(id)] : id \in Ids }
        \cup { [op |-> op, arg |-> NoArg] : op \in {"getAll", "clear", "export"} }
        \cup { [op |-> "import", arg |-> doc] : doc \in { d \in Docs : ~DocumentRejected(d) } }

OpenFails(c) ==
    /\ Idle
    /\ call' = NewCall(c.op, c.arg, "done")
    /\ ret' = Rejected("open error")
    /\ UNCHANGED <<store, txn, db, puts, appVars>>

Next ==
    \/ \E item \in SampleItems : CallPut(item)
    \/ PutComplete
    \/ PutRequestError
    \/ PutAbort
    \/ GetAll
    \/ GetAllError
    \/ \E id \in Ids : CallDelete(id)
    \/ CallClear
    \/ RemoveRequestSuccess
    \/ RemoveRequestError
    \/ TxnComplete
    \/ TxnAbort
    \/ \E now \in Timestamps : Export(now)
    \/ ExportError
    \/ \E doc \in Docs : ImportRejectsDocument(doc)
    \/ \E doc \in Docs : ImportStart(doc)
    \/ ImportDecodeFails
    \/ ImportPut
    \/ ImportRequestSuccess
    \/ ImportRequestError
    \/ ImportReturn
    \/ \E c \in OpenCalls : OpenFails(c)

Spec == Init /\ [][Next]_vars

(***************************************************************************)
(* saveHistoryItem calls that run side by side: the caller does not await  *)
(* one before it makes the next.  Each call awaits initDB() and then opens *)
(* its readwrite transaction with the one put request.  Readwrite          *)
(* transactions on one object store run one after the other in the order  *)
(* they were created in; the put of a transaction acts on the store as the *)
(* transactions before it left it.                                         *)
(***************************************************************************)
\* The store as earlier calls left it.
StoresBefore == { {}, { StripUrls(SampleItem("a", 1, "legacy")) } }

PutsInit ==
    /\ store \in StoresBefore
    /\ txn = NoTxn
    /\ call = NoCall
    /\ ret = [status |-> "none"]
    /\ db = initDB(NoDatabase, {}).db
    /\ puts = [NoPuts EXCEPT !.before = store]
    /\ activeUrls = << >>
    /\ revoked = NoRevocations
    /\ lastOp = NoOp
    /\ ui = InitialUi
    /\ tasks = NoTasks
    /\ mounted = FALSE
    /\ minted = {}
    /\ batches = 0
    /\ events = 0

\* Call i has the oldest transaction that has not ended.
FirstQueued(i) ==
    /\ i \in DOMAIN puts.calls
    /\ puts.calls[i].pc = "queued"
    /\ \A k \in DOMAIN puts.order :
          puts.calls[puts.order[k]].pc = "queued" =>
             \E l \in 1 .. k : puts.order[l] = i

\* Faulty variant of CommitPut: the transaction writes back the store as it
\* was when the transaction was created, with its record put.
CommitPutSnapshot(s, created, r) == PutRecord(created, r)

\* The store after the transaction with store.put(r) has committed; s is the
\* store when the transaction ran, created the store when it was created.
CommitPut(s, created, r) == PutRecord(s, r)

\* saveHistoryItem(item) is called.
SaveIssued(item) ==
    /\ Len(puts.calls) < MaxPuts
    /\ puts' = [puts EXCEPT !.calls =
                  Append(@, [item |-> item, pc |-> "open", created |-> {}])]
    /\ UNCHANGED <<store, txn, call, ret, db, appVars>>

\* await initDB() resolves for call i: the transaction is created and the put
\* request is placed.
SaveOpened(i) ==
    /\ i \in DOMAIN puts.calls
    /\ puts.calls[i].pc = "open"
    /\ puts' = [puts EXCEPT !.calls[i].pc = "queued",
                            !.calls[i].created = store,
                            !.order = Append(@, i)]
    /\ Opened
    /\ UNCHANGED <<txn, call, ret, appVars>>

\* await initDB() rejects for call i.
SaveOpenFails(i) ==
    /\ i \in DOMAIN puts.calls
    /\ puts.calls[i].pc = "open"
    /\ puts' = [puts EXCEPT !.calls[i].pc = "rejected"]
    /\ UNCHANGED <<store, txn, call, ret, db, appVars>>

\* The transaction of call i commits: transaction.oncomplete resolves.
SaveCommits(i) ==
    /\ FirstQueued(i)
    /\ store' = CommitPut(store, puts.calls[i].created, StripUrls(puts.calls[i].item))
    /\ puts' = [puts EXCEPT !.calls[i].pc = "resolved", !.log = Append(@, i)]
    /\ UNCHANGED <<txn, call, ret, db, appVars>>

\* The put request of call i fails: transaction.onerror rejects.
SaveRequestFails(i) ==
    /\ FirstQueued(i)
    /\ puts' = [puts EXCEPT !.calls[i].pc = "rejected"]
    /\ UNCHANGED <<store, txn, call, ret, db, appVars>>

\* The transaction of call i aborts at commit: the promise stays pending.
SaveAborts(i) ==
    /\ FirstQueued(i)
    /\ puts' = [puts EXCEPT !.calls[i].pc = "hung"]
    /\ UNCHANGED <<store, txn, call, ret, db, appVars>>

PutsNext ==
    \/ \E item \in SampleItems : SaveIssued(item)
    \/ \E i \in 1 .. MaxPuts : SaveOpened(i)
    \/ \E i \in 1 .. MaxPuts : SaveOpenFails(i)
    \/ \E i \in 1 .. MaxPuts : SaveCommits(i)
    \/ \E i \in 1 .. MaxPuts : SaveRequestFails(i)
    \/ \E i \in 1 .. MaxPuts : SaveAborts(i)

PutsSpec == PutsInit /\ [][PutsNext]_vars

(***************************************************************************)
(* The storage probes: requestPersistentStorage, isStoragePersistent and   *)
(* getStorageEstimate, called on any host.  A host is navigator.storage:   *)
(* absent, or an object whose method is absent or answers with a value.    *)
(***************************************************************************)
NoStorage == [k |-> "undefined"]

NoMethod == [k |-> "undefined"]

\* A JavaScript boolean.
Bool(b) == [k |-> "boolean", b |-> b]

StorageWith(method, answer) == [k |-> "storage", method |-> method, answer |-> answer]

\* What navigator.storage.estimate() resolves with: usage and quota are
\* optional.
Bytes == 0 .. MaxBytes

Estimates ==
    { [f \in fields |-> IF f = "usage" THEN u ELSE q] :
        fields \in SUBSET {"usage", "quota"}, u \in Bytes, q \in Bytes }

EstimateHosts ==
    {NoStorage} \cup { StorageWith("estimate", a) : a \in {NoMethod} \cup Estimates }

DurabilityHosts(method) ==
    {NoStorage} \cup { StorageWith(method, a) : a \in {NoMethod, Bool(TRUE), Bool(FALSE)} }

\* navigator.storage?.<method>
Supports(host, method) ==
    /\ host # NoStorage
    /\ host.method = method
    /\ host.answer # NoMethod

\* A JavaScript number that is a quotient of two byte counts: a fraction in
\* lowest terms, or NaN or Infinity after a division by zero.
RECURSIVE GCD(_, _)
GCD(a, b) == IF b = 0 THEN a ELSE GCD(b, a % b)

Number(n, d) ==
    IF d = 0 THEN [k |-> IF n = 0 THEN "NaN" ELSE "Infinity"]
    ELSE [k |-> "number", num |-> n \div GCD(n, d), den |-> d \div GCD(n, d)]

\* Faulty variant of PercentUsed: no test of quota.
PercentUsedUnchecked(usage, quota) ==
    LET ratio == Number(usage, quota)
    IN  IF ratio.k = "number" THEN Number(ratio.num * 100, ratio.den) ELSE ratio

\* quota > 0 ? (usage / quota) * 100 : 0
PercentUsed(usage, quota) ==
    IF quota > 0
    THEN LET ratio == Number(usage, quota)
         IN  Number(ratio.num * 100, ratio.den)
    ELSE Number(0, 1)

\* const { usage = 0, quota = 0 } = await navigator.storage.estimate()
OrZero(estimate, field) == IF field \in DOMAIN estimate THEN estimate[field] ELSE 0

getStorageEstimate(host) ==
    IF Supports(host, "estimate")
    THEN [usage |-> OrZero(host.answer, "usage"),
          quota |-> OrZero(host.answer, "quota"),
          percentUsed |-> PercentUsed(OrZero(host.answer, "usage"),
                                      OrZero(host.answer, "quota"))]
    ELSE JsonNull

requestPersistentStorage(host) ==
    IF Supports(host, "persist") THEN host.answer ELSE Bool(FALSE)

isStoragePersistent(host) ==
    IF Supports(host, "persisted") THEN host.answer ELSE Bool(FALSE)

Probe(op, host, value) ==
    /\ call' = [NoCall EXCEPT !.op = op, !.arg = host]
    /\ ret' = Resolved(value)
    /\ UNCHANGED <<store, txn, db, puts, appVars>>

Estimate(host) == Probe("estimate", host, getStorageEstimate(host))

RequestDurability(host) == Probe("persist", host, requestPersistentStorage(host))

IsDurable(host) == Probe("persisted", host, isStoragePersistent(host))

ProbeNext ==
    \/ \E host \in EstimateHosts : Estimate(host)
    \/ \E host \in DurabilityHosts("persist") : RequestDurability(host)
    \/ \E host \in DurabilityHosts("persisted") : IsDurable(host)

ProbeSpec == Init /\ [][ProbeNext]_vars

(***************************************************************************)
(* The tracker on its own: trackUrl, revokeUrl and revokeAllUrls called    *)
(* with any url in any order.                                              *)
(***************************************************************************)
Handles == { MintUrl(1, 1), MintUrl(1, 2), MintUrl(2, 1) }

Track(url) ==
    /\ Len(activeUrls) < Cardinality(Handles) + 1
    /\ activeUrls' = trackUrl(Tracker(activeUrls, revoked), url).active
    /\ lastOp' = Logged("trackUrl", url)
    /\ UNCHANGED <<dbVars, uiVars, revoked>>

Revoke(url) ==
    /\ Count(revoked, url) < MaxRevokes
    /\ LET t == revokeUrl(Tracker(activeUrls, revoked), url)
       IN  activeUrls' = t.active /\ revoked' = t.revoked
    /\ lastOp' = Logged("revokeUrl", url)
    /\ UNCHANGED <<dbVars, uiVars>>

RevokeAll ==
    /\ \A i \in DOMAIN activeUrls : Count(revoked, activeUrls[i]) < MaxRevokes
    /\ LET t == revokeAllUrls(Tracker(activeUrls, revoked))
       IN  activeUrls' = t.active /\ revoked' = t.revoked
    /\ lastOp' = Logged("revokeAllUrls", "")
    /\ UNCHANGED <<dbVars, uiVars>>

TrackerNext ==
    \/ \E url \in Handles : Track(url)
    \/ \E url \in Handles : Revoke(url)
    \/ RevokeAll

TrackerSpec == Init /\ [][TrackerNext]_vars

(***************************************************************************)
(* The App component.  A handler runs from a user event to its first       *)
(* await in one step and is then a task that waits for the awaited call;   *)
(* each later step runs from the settling of that call to the next await.  *)
(* A handler reads the state of the render it was created in: the task     *)
(* keeps that state as c.  A dbService call is one step here: its          *)
(* transaction has ended before the next transaction on the store reads.   *)
(***************************************************************************)
\* The store as earlier sessions left it.
InitialStores ==
    { {},
      { StripUrls(SampleItem("a", 1, "binary")) },
      { StripUrls(SampleItem("b", 1, "legacy")) } }

\* Date.now(): the clock of the model is the number of user events so far.
Now == events

\* The new task t: at most as many handlers are suspended as there are slots.
FreeSlot(t) == t = Len(tasks) + 1 /\ t \in Slots

\* A user event reaches a mounted component.
UserEvent == mounted /\ events < MaxEvents

Started(t, task) == tasks' = Append(tasks, task)

Ended(t) == tasks' = SubSeq(tasks, 1, t - 1) \o SubSeq(tasks, t + 1, Len(tasks))

\* Task t is suspended at pc.
At(t, pc) == t \in DOMAIN tasks /\ tasks[t].pc = pc

SetTracker(t) == activeUrls' = t.active /\ revoked' = t.revoked

\* A handler suspended at refreshHistory's await getAllHistory().
Refreshing(kind) == [kind |-> kind, pc |-> "getAll"]

\* What a handler reads of the state of its render.
Closure(state, fields) == [f \in fields |-> state[f]]

\* A state update: React drops the update of an unmounted component.
SetState(next) == ui' = IF mounted THEN next ELSE ui

\* The first render: the effect calls init(), which awaits refreshHistory();
\* with the empty history list of that render nothing is revoked.
AppInit ==
    /\ store \in InitialStores
    /\ txn = NoTxn
    /\ call = NoCall
    /\ ret = [status |-> "none"]
    /\ db = initDB(NoDatabase, {}).db
    /\ puts = NoPuts
    /\ activeUrls = << >>
    /\ revoked = NoRevocations
    /\ lastOp = NoOp
    /\ ui = InitialUi
    /\ tasks = << Refreshing("init") >>
    /\ mounted = TRUE
    /\ minted = {}
    /\ batches = 0
    /\ events = 0

\* refreshHistory up to its await: the urls of the history list of the
\* handler's render are revoked.
RefreshRevoke(c) == RevokeUrls(Tracker(activeUrls, revoked), VariantUrls(c.history))

\* refreshHistory after await getAllHistory(): the new urls are tracked and
\* the list becomes the history state.
RefreshResolves(t) ==
    /\ At(t, "getAll")
    /\ LET savedHistory == HydratedFrom(store, batches)
       IN  /\ SetTracker(TrackUrls(Tracker(activeUrls, revoked), VariantUrls(savedHistory)))
           /\ SetState([ui EXCEPT !.history = savedHistory])
           /\ minted' = minted \cup Range(VariantUrls(savedHistory))
    /\ batches' = batches + Cardinality(store)
    /\ Ended(t)
    /\ UNCHANGED <<dbVars, lastOp, mounted, events>>

\* getAllHistory rejects: refreshHistory catches and logs.
RefreshRejects(t) ==
    /\ At(t, "getAll")
    /\ Ended(t)
    /\ UNCHANGED <<dbVars, activeUrls, revoked, lastOp, ui, mounted, minted, batches, events>>

\* The cleanup of the effect: revokeAllUrls().  The state of the component
\* is gone; its suspended handlers go on.
Unmount ==
    /\ mounted
    /\ mounted' = FALSE
    /\ SetTracker(revokeAllUrls(Tracker(activeUrls, revoked)))
    /\ ui' = InitialUi
    /\ UNCHANGED <<dbVars, lastOp, tasks, minted, batches, events>>

\* handleRestore(item), for an item of the history list.
handleRestore(item) ==
    /\ UserEvent
    /\ SetTracker(RevokeUrls(Tracker(activeUrls, revoked), ResultUrls(ui.results)))
    /\ ui' = [ui EXCEPT
                !.sourceBlob = IF IsBlob(item.sourceImage) THEN item.sourceImage ELSE @,
                !.sourceImage = IF IsBlob(item.sourceImage)
                                THEN blobToBase64(item.sourceImage)
                                ELSE item.sourceImage,
                !.metadata = Meta(item.metadata),
                !.settings = item.settings,
                !.results = item.variants,
                !.currentHistoryId = Text(item.id)]
    /\ events' = events + 1
    /\ UNCHANGED <<dbVars, lastOp, tasks, mounted, minted, batches>>

\* reset(): the "New Project" button.
reset ==
    /\ UserEvent
    /\ \/ ui.sourceImage # JsonNull \/ ui.sourceBlob # JsonNull
       \/ ui.metadata # JsonNull \/ ui.currentHistoryId # JsonNull
       \/ ui.results # << >>
    /\ SetTracker(RevokeUrls(Tracker(activeUrls, revoked), ResultUrls(ui.results)))
    /\ ui' = [ui EXCEPT !.sourceImage = JsonNull, !.sourceBlob = JsonNull,
                        !.metadata = JsonNull, !.results = << >>,
                        !.currentHistoryId = JsonNull]
    /\ events' = events + 1
    /\ UNCHANGED <<dbVars, lastOp, tasks, mounted, minted, batches>>

\* Faulty variant of RemoveVariant: the current record is rewritten without
\* the variant.
RemoveVariantStored(img) ==
    /\ UserEvent
    /\ SetTracker(revokeUrl(Tracker(activeUrls, revoked), img.url))
    /\ ui' = [ui EXCEPT !.results = SelectSeq(@, LAMBDA r : r.id # img.id)]
    /\ events' = events + 1
    /\ store' = {[r EXCEPT !.variants =
                     IF Text(r.id) = ui.currentHistoryId
                     THEN SelectSeq(@, LAMBDA v : v.id # img.id)
                     ELSE @] : r \in store}
    /\ UNCHANGED <<txn, call, ret, db, puts, lastOp, tasks, mounted, minted, batches>>

\* The remove button of one result: revokeUrl(img.url), then the results
\* without that id.
RemoveVariant(img) ==
    /\ UserEvent
    /\ SetTracker(revokeUrl(Tracker(activeUrls, revoked), img.url))
    /\ ui' = [ui EXCEPT !.results = SelectSeq(@, LAMBDA r : r.id # img.id)]
    /\ events' = events + 1
    /\ UNCHANGED <<dbVars, lastOp, tasks, mounted, minted, batches>>

\* handleFileChange's reader.onloadend for an accepted file: the source
\* image is set, the results are emptied, and handleAnalysis awaits
\* analyzeProductImage.
Upload(t) ==
    /\ UserEvent /\ FreeSlot(t)
    /\ ui' = [ui EXCEPT !.sourceImage = blobToBase64(PngBlob), !.sourceBlob = PngBlob,
                        !.currentHistoryId = JsonNull, !.results = << >>,
                        !.isAnalyzing = TRUE]
    /\ Started(t, [kind |-> "analyze", pc |-> "analyze"])
    /\ events' = events + 1
    /\ UNCHANGED <<dbVars, activeUrls, revoked, lastOp, mounted, minted, batches>>

\* handleAnalysis: setMetadata(data), and setIsAnalyzing(false) in finally.
AnalyzeResolves(t) ==
    /\ At(t, "analyze")
    /\ SetState([ui EXCEPT !.metadata = Meta("m1"), !.isAnalyzing = FALSE])
    /\ Ended(t)
    /\ UNCHANGED <<dbVars, activeUrls, revoked, lastOp, mounted, minted, batches, events>>

\* handleAnalysis: the call fails, the error is shown.
AnalyzeFails(t) ==
    /\ At(t, "analyze")
    /\ SetState([ui EXCEPT !.isAnalyzing = FALSE])
    /\ Ended(t)
    /\ UNCHANGED <<dbVars, activeUrls, revoked, lastOp, mounted, minted, batches, events>>

\* A "Variations" button (setSettings) and then handleGenerate up to await
\* Promise.all(imagePromises): the generateAdImage calls are issued.  The
\* button shows a spinner while isGenerating.
handleGenerate(t, st) ==
    /\ UserEvent /\ FreeSlot(t)
    /\ \A u \in DOMAIN tasks : tasks[u].kind # "generate"
    /\ ~RenderDisabled(ui)
    /\ ui.sourceImage # JsonNull /\ ui.metadata # JsonNull /\ ui.sourceBlob # JsonNull
    /\ ui' = [ui EXCEPT !.settings = st]
    /\ Started(t, [kind |-> "generate", pc |-> "calls",
                   c |-> Closure(ui', {"results", "history", "currentHistoryId",
                                       "metadata", "sourceBlob", "settings"}),
                   n |-> NumberOfVariants(st), resolved |-> 0, puts |-> 0])
    /\ events' = events + 1
    /\ UNCHANGED <<dbVars, activeUrls, revoked, lastOp, mounted, minted, batches>>

\* Faulty variant of AllResolved: the first call to resolve is enough.
AnyResolved(g) == TRUE

\* Promise.all resolves when this call resolves: it is the last one pending.
AllResolved(g) == g.resolved + 1 = g.n

\* The ids a new history record can get: generateId() returns an id no
\* record has.
NewIds == { id \in Ids \cup {"c"} :
              /\ \A r \in store : r.id # id
              /\ \A i \in DOMAIN ui.history : ui.history[i].id # id }

\* Faulty variant of HistoryIds: generateId() for every save.
HistoryIdsAlwaysNew(c) == NewIds

\* const historyId = currentHistoryId || generateId(), with the
\* currentHistoryId of the handler's render.
HistoryIds(c) ==
    IF c.currentHistoryId # JsonNull THEN {c.currentHistoryId.s} ELSE NewIds

\* A generateAdImage call resolves.  With the last one, the variants are
\* built (each url created and tracked), the results are set, the thumbnail
\* is made and saveHistoryItem(historyItem) is awaited.
GenCallResolves(t) ==
    /\ At(t, "calls")
    /\ LET g == tasks[t]
           newVariants == [j \in 1 .. g.n |->
                Variant(GenerateId(batches + 1, j), MintUrl(batches + 1, j), JpgBlob, Now)]
           updatedResults == Take(newVariants \o g.c.results, 10)
       IN  IF ~AllResolved(g)
           THEN /\ tasks' = [tasks EXCEPT ![t].resolved = @ + 1]
                /\ UNCHANGED <<activeUrls, revoked, ui, minted, batches>>
           ELSE /\ SetTracker(TrackUrls(Tracker(activeUrls, revoked), ResultUrls(newVariants)))
                /\ SetState([ui EXCEPT !.results = updatedResults])
                /\ minted' = minted \cup Range(ResultUrls(newVariants))
                /\ batches' = batches + 1
                /\ \E historyId \in HistoryIds(g.c) :
                      tasks' = [tasks EXCEPT ![t] =
                          [g EXCEPT !.pc = "save", !.resolved = @ + 1, !.puts = @ + 1] @@
                          [item |-> HistoryItem(historyId, Now, g.c.metadata.value,
                                                g.c.sourceBlob, updatedResults,
                                                g.c.settings, Thumb)]]
    /\ UNCHANGED <<dbVars, lastOp, mounted, events>>

\* A generateAdImage call rejects: Promise.all rejects, the catch block shows
\* the error.
GenCallFails(t) ==
    /\ At(t, "calls")
    /\ Ended(t)
    /\ UNCHANGED <<dbVars, activeUrls, revoked, lastOp, ui, mounted, minted, batches, events>>

\* Faulty variant of ItemAfterSave: the urls are cleared in the caller's
\* variants.
ItemAfterSaveCleared(item) == StripUrls(item)

\* The caller's item after saveHistoryItem(item): storageItem is a spread
\* copy with a mapped copy of each variant, and item is only read.
ItemAfterSave(item) == item

\* The results after saveHistoryItem(item): a result that is one of the
\* item's variants is the same object, so it shows what the call did to it.
SharedWith(results, item) ==
    [i \in DOMAIN results |->
        IF \E j \in DOMAIN item.variants : item.variants[j] = results[i]
        THEN LET j == CHOOSE j \in DOMAIN item.variants : item.variants[j] = results[i]
             IN  ItemAfterSave(item).variants[j]
        ELSE results[i]]

\* saveHistoryItem resolves: setCurrentHistoryId(historyId), then
\* refreshHistory() up to its await.
GenSaveComplete(t) ==
    /\ At(t, "save")
    /\ store' = PutRecord(store, StripUrls(tasks[t].item))
    /\ SetState([ui EXCEPT !.currentHistoryId = Text(tasks[t].item.id),
                           !.results = SharedWith(@, tasks[t].item)])
    /\ SetTracker(RefreshRevoke(tasks[t].c))
    /\ tasks' = [tasks EXCEPT ![t] = Refreshing(@.kind)]
    /\ UNCHANGED <<txn, call, ret, db, puts, lastOp, mounted, minted, batches, events>>

\* saveHistoryItem rejects (the catch block shows the error), or its
\* transaction aborts at commit and the handler waits for ever.
GenSaveFails(t) ==
    /\ At(t, "save")
    /\ Ended(t)
    /\ UNCHANGED <<dbVars, activeUrls, revoked, lastOp, ui, mounted, minted, batches, events>>

\* handleDeleteHistory(id) up to await deleteHistoryItem(id).
handleDeleteHistory(t, id) ==
    /\ UserEvent /\ FreeSlot(t)
    /\ Started(t, [kind |-> "delete", pc |-> "delete",
                   c |-> Closure(ui, {"history", "currentHistoryId"}), id |-> id])
    /\ events' = events + 1
    /\ UNCHANGED <<dbVars, activeUrls, revoked, lastOp, ui, mounted, minted, batches>>

\* deleteHistoryItem resolves, its transaction committed or not; then
\* setCurrentHistoryId(null) for the current id and refreshHistory() up to
\* its await.
DeleteResolves(t, committed) ==
    /\ At(t, "delete")
    /\ store' = IF committed THEN DeleteRecord(store, tasks[t].id) ELSE store
    /\ SetState([ui EXCEPT !.currentHistoryId =
                    IF tasks[t].c.currentHistoryId = Text(tasks[t].id) THEN JsonNull ELSE @])
    /\ SetTracker(RefreshRevoke(tasks[t].c))
    /\ tasks' = [tasks EXCEPT ![t] = Refreshing(@.kind)]
    /\ UNCHANGED <<txn, call, ret, db, puts, lastOp, mounted, minted, batches, events>>

\* deleteHistoryItem rejects: the handler throws.
DeleteRejects(t) ==
    /\ At(t, "delete")
    /\ Ended(t)
    /\ UNCHANGED <<dbVars, activeUrls, revoked, lastOp, ui, mounted, minted, batches, events>>

\* handleClearHistory, confirmed, up to await clearAllHistory().
handleClearHistory(t) ==
    /\ UserEvent /\ FreeSlot(t)
    /\ Started(t, [kind |-> "clear", pc |-> "clear"])
    /\ events' = events + 1
    /\ UNCHANGED <<dbVars, activeUrls, revoked, lastOp, ui, mounted, minted, batches>>

\* clearAllHistory resolves, its transaction committed or not; then
\* setHistory([]) and setCurrentHistoryId(null).
ClearResolves(t, committed) ==
    /\ At(t, "clear")
    /\ store' = IF committed THEN ClearRecords(store) ELSE store
    /\ SetState([ui EXCEPT !.history = << >>, !.currentHistoryId = JsonNull])
    /\ Ended(t)
    /\ UNCHANGED <<txn, call, ret, db, puts, activeUrls, revoked, lastOp, mounted, minted, batches, events>>

\* clearAllHistory rejects: the handler throws.
ClearRejects(t) ==
    /\ At(t, "clear")
    /\ Ended(t)
    /\ UNCHANGED <<dbVars, activeUrls, revoked, lastOp, ui, mounted, minted, batches, events>>

\* The backup files the user picks: one record, a record followed by an
\* item that cannot be decoded, and a document whose items is a string.
AppDocs ==
    { JsonText([version |-> DB_VERSION, exportedAt |-> 1,
                items |-> JsonArray(<< Exported(SampleItem("b", 1, "binary")) >>)]),
      JsonText([version |-> DB_VERSION, exportedAt |-> 1,
                items |-> JsonArray(<< Exported(SampleItem("a", 1, "legacy")), BadItem >>)]),
      ItemsStringDoc }

\* handleImport up to await importData(text).
handleImport(t, doc) ==
    /\ UserEvent /\ FreeSlot(t)
    /\ Started(t, [kind |-> "import", pc |-> "import",
                   c |-> Closure(ui, {"history"}), doc |-> doc])
    /\ events' = events + 1
    /\ UNCHANGED <<dbVars, activeUrls, revoked, lastOp, ui, mounted, minted, batches>>

\* importData resolves: every item was put, the transaction of the last one
\* committed or not; then refreshHistory() up to its await.
ImportResolves(t, committed) ==
    /\ At(t, "import")
    /\ ~DocumentRejected(tasks[t].doc)
    /\ LET items == DocItems(tasks[t].doc)
       IN  /\ items # << >>
           /\ \A j \in DOMAIN items : ~DecodeFails(items[j])
           /\ store' = ItemsApplied(store, items,
                                    IF committed THEN Len(items) ELSE Len(items) - 1)
    /\ SetTracker(RefreshRevoke(tasks[t].c))
    /\ tasks' = [tasks EXCEPT ![t] = Refreshing(@.kind)]
    /\ UNCHANGED <<txn, call, ret, db, puts, lastOp, ui, mounted, minted, batches, events>>

\* importData rejects, for the document or at item k after the items before
\* it were put: the catch block shows the error.
ImportRejects(t) ==
    /\ At(t, "import")
    /\ IF DocumentRejected(tasks[t].doc)
       THEN store' = store
       ELSE LET items == DocItems(tasks[t].doc)
            IN  \E k \in DOMAIN items :
                   /\ \A j \in 1 .. k - 1 : ~DecodeFails(items[j])
                   /\ store' = ItemsApplied(store, items, k - 1)
    /\ Ended(t)
    /\ UNCHANGED <<txn, call, ret, db, puts, activeUrls, revoked, lastOp, ui, mounted, minted, batches, events>>

\* URL.createObjectURL(blob) for the backup file of the export started at
\* user event e.
DownloadUrl(e) == "blob:backup-" \o ToString(e)

\* handleExport up to await exportAllData().
handleExport(t) ==
    /\ UserEvent /\ FreeSlot(t)
    /\ ~ExportDisabled(ui)
    /\ ui' = [ui EXCEPT !.isExporting = TRUE]
    /\ Started(t, [kind |-> "export", pc |-> "export", url |-> DownloadUrl(events + 1)])
    /\ events' = events + 1
    /\ UNCHANGED <<dbVars, activeUrls, revoked, lastOp, mounted, minted, batches>>

\* exportAllData resolves: the backup file gets an object URL, the link is
\* clicked and the URL is revoked; setIsExporting(false) in finally.
ExportResolves(t) ==
    /\ At(t, "export")
    /\ revoked' = RevokeObjectURL(revoked, tasks[t].url)
    /\ SetState([ui EXCEPT !.isExporting = FALSE])
    /\ Ended(t)
    /\ UNCHANGED <<dbVars, activeUrls, lastOp, mounted, minted, batches, events>>

\* exportAllData rejects: the catch block shows the error.
ExportRejects(t) ==
    /\ At(t, "export")
    /\ SetState([ui EXCEPT !.isExporting = FALSE])
    /\ Ended(t)
    /\ UNCHANGED <<dbVars, activeUrls, revoked, lastOp, mounted, minted, batches, events>>

AppNext ==
    \/ \E t \in Slots : RefreshResolves(t)
    \/ \E t \in Slots : RefreshRejects(t)
    \/ Unmount
    \/ \E i \in DOMAIN ui.history : handleRestore(ui.history[i])
    \/ reset
    \/ \E i \in DOMAIN ui.results : RemoveVariant(ui.results[i])
    \/ \E t \in Slots : Upload(t)
    \/ \E t \in Slots : AnalyzeResolves(t)
    \/ \E t \in Slots : AnalyzeFails(t)
    \/ \E t \in Slots : \E st \in {"s1", "s2"} : handleGenerate(t, st)
    \/ \E t \in Slots : GenCallResolves(t)
    \/ \E t \in Slots : GenCallFails(t)
    \/ \E t \in Slots : GenSaveComplete(t)
    \/ \E t \in Slots : GenSaveFails(t)
    \/ \E t \in Slots : \E i \in DOMAIN ui.history : handleDeleteHistory(t, ui.history[i].id)
    \/ \E t \in Slots : \E committed \in BOOLEAN : DeleteResolves(t, committed)
    \/ \E t \in Slots : DeleteRejects(t)
    \/ \E t \in Slots : handleClearHistory(t)
    \/ \E t \in Slots : \E committed \in BOOLEAN : ClearResolves(t, committed)
    \/ \E t \in Slots : ClearRejects(t)
    \/ \E t \in Slots : \E doc \in AppDocs : handleImport(t, doc)
    \/ \E t \in Slots : \E committed \in BOOLEAN : ImportResolves(t, committed)
    \/ \E t \in Slots : ImportRejects(t)
    \/ \E t \in Slots : handleExport(t)
    \/ \E t \in Slots : ExportResolves(t)
    \/ \E t \in Slots : ExportRejects(t)

AppSpec == AppInit /\ [][AppNext]_vars

(***************************************************************************)
(* Properties.                                                             *)
(***************************************************************************)
\* The last call was op and its promise resolved.
ResolvedCall(op) == call.op = op /\ ret.status = "resolved"

\* The last call was op and its promise rejected.
RejectedCall(op) == call.op = op /\ ret.status = "rejected"

\* Whether record h is record r in every field but the variants' url.
SameButUrls(h, r) ==
    /\ h.id = r.id
    /\ h.timestamp = r.timestamp
    /\ h.metadata = r.metadata
    /\ h.sourceImage = r.sourceImage
    /\ h.settings = r.settings
    /\ h.thumbnail = r.thumbnail
    /\ Len(h.variants) = Len(r.variants)
    /\ \A i \in DOMAIN h.variants :
          /\ h.variants[i].id = r.variants[i].id
          /\ h.variants[i].blob = r.variants[i].blob
          /\ h.variants[i].timestamp = r.variants[i].timestamp

\* C1: strip-on-write.  In every reachable state, every variant of every
\* record held in the store has url equal to the empty string, whatever urls
\* the records passed to saveHistoryItem or the imported documents carried.
C1_StripOnWrite ==
    \A r \in store : \A i \in DOMAIN r.variants : r.variants[i].url = ""

\* C1 witness: a record passed to saveHistoryItem with a live url is stored.
C1_Witness_Put ==
    /\ ResolvedCall("put")
    /\ \E i \in DOMAIN call.arg.variants : call.arg.variants[i].url # ""
    /\ \E r \in store : SameButUrls(r, call.arg)

\* C2: key uniqueness and replace semantics.  The store never holds two
\* records with one id; when saveHistoryItem has resolved, the store holds
\* exactly one record with the item's id, its content is the item's (urls
\* cleared), and the records with other ids are those held before the call.
C2_ReplaceSemantics ==
    /\ \A x, y \in store : x.id = y.id => x = y
    /\ ResolvedCall("put") =>
          /\ Cardinality({ r \in store : r.id = call.arg.id }) = 1
          /\ \A r \in store : r.id = call.arg.id => SameButUrls(r, call.arg)
          /\ { r \in store : r.id # call.arg.id }
                = { r \in call.before : r.id # call.arg.id }

\* C2 witness: saveHistoryItem resolved for an id that was stored with other
\* content, while a record with another id is held.
C2_Witness_Replaced ==
    /\ ResolvedCall("put")
    /\ \E x \in call.before : x.id = call.arg.id /\ ~SameButUrls(x, call.arg)
    /\ \E y \in call.before : y.id # call.arg.id

\* Stores in which every source image and every variant blob is a non-empty
\* binary blob.
BinaryStores ==
    { s \in SUBSET { StripUrls(x) : x \in SampleItems } :
        /\ \A x, y \in s : x.id = y.id => x = y
        /\ \A x \in s :
              /\ IsBlob(x.sourceImage) /\ Len(x.sourceImage.bytes) > 0
              /\ \A i \in DOMAIN x.variants :
                    IsBlob(x.variants[i].blob) /\ Len(x.variants[i].blob.bytes) > 0 }

\* Record q holds the bytes and the fields of record r.
RoundTripped(q, r) ==
    /\ q.id = r.id
    /\ q.timestamp = r.timestamp
    /\ q.metadata = r.metadata
    /\ q.settings = r.settings
    /\ q.thumbnail = r.thumbnail
    /\ IsBlob(q.sourceImage)
    /\ q.sourceImage.bytes = r.sourceImage.bytes
    /\ Len(q.variants) = Len(r.variants)
    /\ \A i \in DOMAIN r.variants :
          /\ IsBlob(q.variants[i].blob)
          /\ q.variants[i].blob.bytes = r.variants[i].blob.bytes

\* C3: round trip, as claimed.  When importData has resolved for the
\* document exportAllData produces from a binary store s, called on an empty
\* store or on s itself, the store holds for every record of s a record with
\* the same bytes and fields.
C3_RoundTrip ==
    \A s \in BinaryStores :
        ( /\ ResolvedCall("import") /\ txn = NoTxn
          /\ call.arg = ExportText(s, 1)
          /\ call.before \in {{}, s} )
        => \A r \in s : \E q \in store : RoundTripped(q, r)

\* C4: rehydrate-on-read.  In the list getAllHistory resolves with, a variant
\* has a non-empty url exactly when the stored variant has a blob.
C4_Rehydrate ==
    ResolvedCall("getAll") =>
        \A j \in DOMAIN ret.value :
            \E r \in store :
                /\ r.id = ret.value[j].id
                /\ Len(r.variants) = Len(ret.value[j].variants)
                /\ \A i \in DOMAIN r.variants :
                      (ret.value[j].variants[i].url # "") <=> IsBlob(r.variants[i].blob)

\* C4 witness: a record read back has a variant with a blob and one without.
C4_Witness_Mixed ==
    /\ ResolvedCall("getAll")
    /\ \E j \in DOMAIN ret.value :
          /\ \E i \in DOMAIN ret.value[j].variants : ret.value[j].variants[i].url # ""
          /\ \E i \in DOMAIN ret.value[j].variants : ret.value[j].variants[i].url = ""

\* C5: sort order.  The list getAllHistory resolves with holds every record
\* of the store exactly once and nothing else, and its timestamps are
\* non-increasing.
C5_SortOrder ==
    ResolvedCall("getAll") =>
        /\ Len(ret.value) = Cardinality(store)
        /\ \A r \in store :
              Cardinality({ j \in DOMAIN ret.value : SameButUrls(ret.value[j], r) }) = 1
        /\ \A j \in DOMAIN ret.value : \E r \in store : SameButUrls(ret.value[j], r)
        /\ \A j \in 1 .. Len(ret.value) - 1 :
              ret.value[j].timestamp >= ret.value[j + 1].timestamp

\* C5 witness: the store holds a with the lower and b with the higher
\* timestamp, and the list is b, a.
C5_Witness_NewestFirst ==
    /\ ResolvedCall("getAll")
    /\ Len(ret.value) = 2
    /\ ret.value[1].id = "b" /\ ret.value[2].id = "a"
    /\ ret.value[1].timestamp > ret.value[2].timestamp

\* C6: delete, as claimed.  When deleteHistoryItem(id) has resolved, the store
\* holds the records it held before the call except the record with that id:
\* nothing changed when the id was absent, exactly that record is gone when
\* it was present.
C6_DeleteEffect ==
    (ResolvedCall("delete") /\ txn = NoTxn) =>
        store = { r \in call.before : r.id # call.arg.s }

\* C7: clear, as claimed.  When clearAllHistory has resolved the store is
\* empty, and a getAllHistory that follows it resolves with the empty list.
C7_ClearThenEmpty ==
    /\ (ResolvedCall("clear") /\ txn = NoTxn) => store = {}
    /\ (ResolvedCall("getAll") /\ call.afterClear) => ret.value = << >>

\* C8: a document whose items property is missing or not an array.
\* importData rejects with the invalid-format error and writes nothing: no
\* transaction is opened and the store is as it was before the call.
C8_InvalidFormat ==
    (call.op = "import" /\ call.arg \in {NoItemsDoc, ItemsStringDoc, ItemsNullDoc}) =>
        /\ ret = Rejected("Invalid backup format")
        /\ call.pc = "done"
        /\ call.importedCount = 0
        /\ txn = NoTxn
        /\ store = call.before

\* C8 witness: importData rejected a document whose items is a string, on a
\* store that holds records.
C8_Witness_NotArray ==
    /\ RejectedCall("import")
    /\ call.arg = ItemsStringDoc
    /\ store # {}

\* C9: the import count, as claimed.  When importData has resolved with n,
\* n writes of this import were committed and n is the number of items.
C9_ImportCount ==
    (ResolvedCall("import") /\ txn = NoTxn) =>
        /\ ret.value = call.committed
        /\ ret.value = Len(DocItems(call.arg))

\* C10: failure of item k, as claimed.  While importData runs, the write of
\* every item before the current one is committed (or about to commit), so a
\* failed write stops the import; and when importData has rejected at item
\* k, the store holds items 1..k-1 on top of what it held before, and nothing
\* of the later items.
C10_ImportStopsAtFailure ==
    /\ (call.op = "import" /\ call.pc \in {"loop", "wait"}) =>
          call.committed + (IF txn.state = "finishing" THEN 1 ELSE 0) = call.k - 1
    /\ (RejectedCall("import") /\ ~DocumentRejected(call.arg) /\ txn = NoTxn) =>
          /\ call.committed = call.k - 1
          /\ store = ItemsApplied(call.before, DocItems(call.arg), call.k - 1)

\* The ids importData has issued a put for so far: those of the items before
\* the current one.
WrittenIds ==
    IF DocumentRejected(call.arg) THEN {}
    ELSE { DocItems(call.arg)[j].id : j \in 1 .. call.k - 1 }

\* C11: a failed import loses nothing.  When importData has rejected, every
\* id the store held before the call is still held, and a record whose id
\* the import did not write before it failed is held unchanged.
C11_FailedImportKeepsData ==
    RejectedCall("import") =>
        /\ \A r \in call.before : \E q \in store : q.id = r.id
        /\ \A r \in call.before : r.id \notin WrittenIds => r \in store

\* C11 witness: importData rejected at its second item, after it replaced a
\* record held before, while a record with an id it did not write is held.
C11_Witness_FailedAfterWrite ==
    /\ RejectedCall("import") /\ txn = NoTxn
    /\ call.k = 2
    /\ \E r \in call.before : r.id \in WrittenIds /\ r \notin store
    /\ \E r \in call.before : r.id \notin WrittenIds /\ r \in store

\* C12: saveHistoryItem settles, as claimed.  Once the transaction of a
\* saveHistoryItem call has ended, the promise has resolved with the record
\* stored, or rejected with the store as it was before the call; it is not
\* left pending.
C12_PutSettles ==
    (call.op = "put" /\ txn = NoTxn) =>
        \/ /\ ret.status = "resolved"
           /\ \E r \in store : SameButUrls(r, call.arg)
        \/ /\ ret.status = "rejected"
           /\ store = call.before

\* C13: delete and clear, as claimed.  When deleteHistoryItem(id) has
\* resolved no record with that id is in the store, and when clearAllHistory
\* has resolved the store holds no record, once the transaction has ended:
\* success is reported only for a removal that is committed.
C13_RemovalCommitted ==
    /\ (ResolvedCall("delete") /\ txn = NoTxn) => \A r \in store : r.id # call.arg.s
    /\ (ResolvedCall("clear") /\ txn = NoTxn) => Cardinality(store) = 0

\* The tracker operation made last, and the url it was made on.
LastOpIs(op) == lastOp.ops # << >> /\ lastOp.ops[Len(lastOp.ops)].op = op

LastUrl == lastOp.ops[Len(lastOp.ops)].url

\* C16: revokeUrl(url).  When the url was tracked, it is released once and
\* leaves the set, and nothing else changes; when it was not tracked (never
\* tracked, revoked already, not tracked yet) nothing is released and the set
\* is as before.
C16_RevokeIffTracked ==
    LastOpIs("revokeUrl") =>
        IF Has(lastOp.active, LastUrl)
        THEN /\ ~Has(activeUrls, LastUrl)
             /\ Count(revoked, LastUrl) = Count(lastOp.revoked, LastUrl) + 1
             /\ \A h \in Handles \ {LastUrl} :
                   /\ Has(activeUrls, h) <=> Has(lastOp.active, h)
                   /\ Count(revoked, h) = Count(lastOp.revoked, h)
        ELSE /\ activeUrls = lastOp.active
             /\ revoked = lastOp.revoked

\* C16 witness: a url was tracked, revoked, and revoked again while other urls
\* are tracked; it counts one release.
C16_Witness_RevokedAgain ==
    /\ Len(lastOp.ops) = 3
    /\ lastOp.ops[1].op = "trackUrl"
    /\ lastOp.ops[2] = [op |-> "revokeUrl", url |-> lastOp.ops[1].url]
    /\ lastOp.ops[3] = lastOp.ops[2]
    /\ Count(revoked, LastUrl) = 1
    /\ activeUrls # << >>

\* C17: trackUrl(url) is idempotent.  Tracking a tracked url leaves the set
\* as it is, the set holds no url twice, a tracked url is in the set, nothing
\* is released by tracking, and after revokeUrl(url) the url is not in the
\* set any more.
C17_TrackIdempotent ==
    /\ \A i, j \in DOMAIN activeUrls : activeUrls[i] = activeUrls[j] => i = j
    /\ LastOpIs("trackUrl") =>
          /\ Has(activeUrls, LastUrl)
          /\ Has(lastOp.active, LastUrl) => activeUrls = lastOp.active
          /\ revoked = lastOp.revoked
    /\ LastOpIs("revokeUrl") => ~Has(activeUrls, LastUrl)

\* C17 witness: a url was tracked twice in a row and then revoked once.
C17_Witness_TrackedTwice ==
    /\ Len(lastOp.ops) = 3
    /\ lastOp.ops[1].op = "trackUrl"
    /\ lastOp.ops[2] = lastOp.ops[1]
    /\ lastOp.ops[3] = [op |-> "revokeUrl", url |-> lastOp.ops[1].url]
    /\ ~Has(activeUrls, LastUrl)
    /\ Count(revoked, LastUrl) = 1

\* The urls the state of App refers to: those of the results and of the
\* history list.
UiUrls(state) ==
    (Range(ResultUrls(state.results)) \cup Range(VariantUrls(state.history))) \ {""}

\* Every url that was created or is tracked.
KnownUrls == minted \cup Range(activeUrls)

\* C14: every handle is revoked exactly once, as claimed.  No url created by
\* getAllHistory or by handleGenerate is ever revoked twice, and once the
\* cleanup of the effect has run and no handler is suspended any more, every
\* such url has been revoked.
C14_RevokedExactlyOnce ==
    /\ \A h \in minted : Count(revoked, h) <= 1
    /\ (~mounted /\ tasks = << >>) => \A h \in minted : Count(revoked, h) = 1

\* C15: tracked before shown.  In every step, each url created in the step
\* (by getAllHistory for refreshHistory, by handleGenerate for a variant) is
\* in the tracked set after the step, so a url that enters the results or the
\* history list in the step it is created in is tracked.
C15_TrackedBeforeShown ==
    [][ /\ \A h \in minted' \ minted : Has(activeUrls', h)
        /\ \A h \in UiUrls(ui') \ UiUrls(ui) :
              h \notin minted => Has(activeUrls', h) ]_vars

\* C15 witness: the results hold a variant that handleGenerate created and
\* the history list holds records that getAllHistory hydrated, all tracked.
C15_Witness_ShownTracked ==
    /\ mounted
    /\ \E i \in DOMAIN ui.results :
          /\ ui.results[i].url \in minted
          /\ ui.results[i].url \notin Range(VariantUrls(ui.history))
          /\ Has(activeUrls, ui.results[i].url)
    /\ VariantUrls(ui.history) # << >>
    /\ \A h \in Range(VariantUrls(ui.history)) : Has(activeUrls, h)

\* C18: handle hygiene.  The step in which the cleanup of the effect calls
\* revokeAllUrls() releases every url that is tracked exactly once, releases
\* no other url and leaves the tracked set empty, however many history reads
\* and generations came before; and no step of a session releases a url that
\* was released before.
C18_RevokeAllDrains ==
    [][ /\ \A h \in KnownUrls : Count(revoked', h) <= 1
        /\ (mounted /\ ~mounted') =>
              /\ activeUrls' = << >>
              /\ \A h \in KnownUrls :
                    Count(revoked', h) =
                        Count(revoked, h) + (IF Has(activeUrls, h) THEN 1 ELSE 0) ]_vars

\* C18 witness: two history reads of a record with two variants completed,
\* then the cleanup ran: four urls were created, each was released once, and
\* none is tracked.
C18_Witness_DrainedAfterReads ==
    /\ ~mounted
    /\ tasks = << >>
    /\ activeUrls = << >>
    /\ Cardinality(minted) >= 4
    /\ \A h \in minted : Count(revoked, h) = 1

\* The step is a call of handleRestore.
RestoreStep == \E i \in DOMAIN ui.history : handleRestore(ui.history[i])

\* The step is handler t reaching refreshHistory().
RefreshStartStep(t) ==
    \/ GenSaveComplete(t)
    \/ \E committed \in BOOLEAN : DeleteResolves(t, committed)
    \/ \E committed \in BOOLEAN : ImportResolves(t, committed)

\* The step releases every tracked url once and leaves the set empty.
AllRevoked ==
    /\ activeUrls' = << >>
    /\ \A h \in KnownUrls :
          Count(revoked', h) = Count(revoked, h) + (IF Has(activeUrls, h) THEN 1 ELSE 0)

\* The step releases the tracked ones of urls once, untracks them, and leaves
\* every other url as it is.
OnlyRevoked(urls) ==
    \A h \in KnownUrls :
       /\ Has(activeUrls', h) <=> (Has(activeUrls, h) /\ h \notin urls)
       /\ Count(revoked', h) =
             Count(revoked, h) + (IF Has(activeUrls, h) /\ h \in urls THEN 1 ELSE 0)

\* C19 as claimed: RevokeAll at teardown and at every full replacement.  The
\* cleanup of the effect, every handleRestore and every refreshHistory
\* release all tracked urls and leave the set empty.
C19_RevokeAllOnReplacement ==
    [][ ((mounted /\ ~mounted') \/ RestoreStep \/ \E t \in Slots : RefreshStartStep(t))
            => AllRevoked ]_vars

\* C19: revokeAllUrls runs in the cleanup of the effect only.  handleRestore
\* releases the urls of the results it replaces, refreshHistory releases the
\* urls of the history list of its render, each through revokeUrl, and both
\* leave every other tracked url tracked.
C19_ReplacedUrlsRevoked ==
    [][ /\ (mounted /\ ~mounted') => AllRevoked
        /\ RestoreStep => OnlyRevoked(Range(ResultUrls(ui.results)))
        /\ \A t \in Slots :
              RefreshStartStep(t) => OnlyRevoked(Range(VariantUrls(tasks[t].c.history))) ]_vars

\* C19 witness: a history record was restored over other results: the
\* results are the record's variants, their urls are tracked still, and a
\* url that is shown no more has been released.
C19_Witness_RestoredOverResults ==
    /\ mounted
    /\ ui.results # << >>
    /\ \E i \in DOMAIN ui.history : ui.results = ui.history[i].variants
    /\ \A h \in Range(ResultUrls(ui.results)) : Has(activeUrls, h)
    /\ \E h \in minted : Count(revoked, h) = 1 /\ h \notin UiUrls(ui)

\* No handler is past its analysis or its generateAdImage calls: each one
\* awaits analyzeProductImage, Promise.all(imagePromises) or getAllHistory.
OnlyGenerating ==
    \A t \in DOMAIN tasks : tasks[t].pc \in {"analyze", "calls", "getAll"}

\* C20: one write per batch, after all calls.  A generation has all its n
\* generateAdImage calls outstanding at once and has called saveHistoryItem
\* not at all while one of them is pending and exactly once when all n have
\* resolved; while handlers only analyse, generate or read the history no
\* step changes the store, so a failed analysis or a failed generateAdImage
\* call ends its handler with the store as it was.
C20_BatchSavedOnce ==
    [][ /\ \A t \in DOMAIN tasks' :
              (tasks'[t].kind = "generate" /\ tasks'[t].pc # "getAll") =>
                 /\ tasks'[t].n = NumberOfVariants(tasks'[t].c.settings)
                 /\ tasks'[t].pc = "calls" =>
                       tasks'[t].puts = 0 /\ tasks'[t].resolved < tasks'[t].n
                 /\ tasks'[t].pc = "save" =>
                       tasks'[t].puts = 1 /\ tasks'[t].resolved = tasks'[t].n
        /\ OnlyGenerating => store' = store
        /\ \A t \in Slots :
              GenSaveComplete(t) =>
                    /\ tasks[t].puts = 1 /\ tasks[t].resolved = tasks[t].n
                    /\ tasks'[t].pc = "getAll" ]_vars

\* C20 witness: both calls of a generation of two variants have resolved and
\* the handler awaits its one saveHistoryItem.
C20_Witness_SavingBatch ==
    \E t \in DOMAIN tasks :
       /\ tasks[t].kind = "generate" /\ tasks[t].pc = "save"
       /\ tasks[t].n = 2 /\ tasks[t].resolved = 2 /\ tasks[t].puts = 1
       /\ Len(tasks[t].item.variants) = 2

\* Text t is the text-safe encoding of blob b: a data: URL of b's type whose
\* payload decodes to b's bytes.
EncodingOf(t, b) ==
    /\ t.k = "dataurl"
    /\ t.mime = b.type
    /\ ValidBase64(t.b64)
    /\ Base64Decode(t.b64) = b.bytes

\* The document of the text exportAllData resolved with.
ExportedDoc == ret.value.value

\* C22: the export document.  When exportAllData has resolved, the document
\* has the version tag, an exportedAt instant and an items array with exactly
\* one item for every record of the store; in the item of a record, a binary
\* source image is its text-safe encoding and a string source image is the
\* string itself, the variants are the record's in the stored order with
\* their ids and timestamps, and the blob of a variant is the text-safe
\* encoding of its blob, or the empty string when it has none.
C22_ExportDocument ==
    ResolvedCall("export") =>
        /\ ret.value.k = "json"
        /\ ExportedDoc.version = DB_VERSION
        /\ ExportedDoc.exportedAt \in Timestamps
        /\ ExportedDoc.items.k = "array"
        /\ Len(ExportedDoc.items.elems) = Cardinality(store)
        /\ \A r \in store :
              /\ Cardinality({ j \in DOMAIN ExportedDoc.items.elems :
                                  ExportedDoc.items.elems[j].id = r.id }) = 1
              /\ \A j \in DOMAIN ExportedDoc.items.elems :
                    LET e == ExportedDoc.items.elems[j]
                    IN  e.id = r.id =>
                          /\ IF IsBlob(r.sourceImage)
                             THEN EncodingOf(e.sourceImage, r.sourceImage)
                             ELSE e.sourceImage = r.sourceImage
                          /\ Len(e.variants) = Len(r.variants)
                          /\ \A i \in DOMAIN r.variants :
                                /\ e.variants[i].id = r.variants[i].id
                                /\ e.variants[i].timestamp = r.variants[i].timestamp
                                /\ DOMAIN e.variants[i] = {"id", "blob", "timestamp"}
                                /\ IF IsBlob(r.variants[i].blob)
                                   THEN EncodingOf(e.variants[i].blob, r.variants[i].blob)
                                   ELSE e.variants[i].blob = EmptyString

\* C22 witness: the export of a store that holds a binary record and a
\* legacy record, whose source image is a string and whose first variant has
\* no blob.
C22_Witness_MixedExport ==
    /\ ResolvedCall("export")
    /\ \E r \in store : IsBlob(r.sourceImage)
    /\ \E r \in store : ~IsBlob(r.sourceImage) /\ r.variants # << >>
                        /\ ~IsBlob(r.variants[1].blob)
    /\ Len(ExportedDoc.items.elems) = 2

\* The ids of the variants of a record or of an exported item, in order.
VariantIds(x) == [i \in DOMAIN x.variants |-> x.variants[i].id]

\* The item of the document whose put is in flight.
ItemInFlight ==
    DocItems(call.arg)[IF txn.state = "active" THEN call.k ELSE call.k - 1]

\* C23: the order of the variants is kept.  The record stored by a resolved
\* saveHistoryItem has the variant ids of the item passed, in its order;
\* every record getAllHistory returns and every item exportAllData writes has
\* the variant ids of the stored record, in its order; every record
\* importData puts has the variant ids of the document's item, in its order,
\* and so has the stored record once the import's writes are committed.
C23_VariantOrder ==
    /\ ResolvedCall("put") =>
          \A r \in store : r.id = call.arg.id => VariantIds(r) = VariantIds(call.arg)
    /\ ResolvedCall("getAll") =>
          \A j \in DOMAIN ret.value :
             \A r \in store : r.id = ret.value[j].id => VariantIds(ret.value[j]) = VariantIds(r)
    /\ ResolvedCall("export") =>
          \A j \in DOMAIN ExportedDoc.items.elems :
             \A r \in store :
                r.id = ExportedDoc.items.elems[j].id =>
                   VariantIds(ExportedDoc.items.elems[j]) = VariantIds(r)
    /\ (call.op = "import" /\ txn # NoTxn) =>
          \A r \in txn.staged : r.id = ItemInFlight.id => VariantIds(r) = VariantIds(ItemInFlight)
    /\ (ResolvedCall("import") /\ txn = NoTxn /\ call.committed = call.importedCount) =>
          LET items == DocItems(call.arg)
          IN  \A j \in DOMAIN items :
                 (\A l \in j + 1 .. Len(items) : items[l].id # items[j].id) =>
                    \E r \in store : r.id = items[j].id /\ VariantIds(r) = VariantIds(items[j])

\* C23 witness: getAllHistory returned two records, one with the variants
\* v1, v2 and one with the variants v2, v1.
C23_Witness_BothOrders ==
    /\ ResolvedCall("getAll")
    /\ \E j \in DOMAIN ret.value : VariantIds(ret.value[j]) = <<"v1", "v2">>
    /\ \E j \in DOMAIN ret.value : VariantIds(ret.value[j]) = <<"v2", "v1">>

\* The record importData puts for the item in flight.
RecordInFlight == CHOOSE r \in txn.staged : r.id = ItemInFlight.id

\* C28: import decoding.  The record importData puts for an item has, as
\* source image, the binary the item's source image encodes when that is a
\* string starting with "data:", and the item's source image itself
\* otherwise; each variant whose blob string is not empty is put with the
\* binary the string encodes, each variant whose blob string is empty is put
\* without a blob, and every variant is put with its id and timestamp.
C28_ImportDecoding ==
    (call.op = "import" /\ txn # NoTxn) =>
        /\ \E r \in txn.staged : r.id = ItemInFlight.id
        /\ IF StartsWithData(ItemInFlight.sourceImage)
           THEN /\ IsBlob(RecordInFlight.sourceImage)
                /\ EncodingOf(ItemInFlight.sourceImage, RecordInFlight.sourceImage)
           ELSE RecordInFlight.sourceImage = ItemInFlight.sourceImage
        /\ Len(RecordInFlight.variants) = Len(ItemInFlight.variants)
        /\ \A i \in DOMAIN ItemInFlight.variants :
              /\ RecordInFlight.variants[i].id = ItemInFlight.variants[i].id
              /\ RecordInFlight.variants[i].timestamp = ItemInFlight.variants[i].timestamp
              /\ IF ItemInFlight.variants[i].blob = EmptyString
                 THEN RecordInFlight.variants[i].blob = Undefined
                 ELSE /\ IsBlob(RecordInFlight.variants[i].blob)
                      /\ EncodingOf(ItemInFlight.variants[i].blob,
                                    RecordInFlight.variants[i].blob)

\* C28 witness: the put of an item whose source image is a plain string,
\* whose first variant has an empty blob string and whose second variant has
\* an encoded blob has been committed.
C28_Witness_PlainItemStored ==
    /\ ResolvedCall("import")
    /\ txn = NoTxn
    /\ \E r \in store :
          /\ r.sourceImage = Text("photo.png")
          /\ Len(r.variants) = 2
          /\ r.variants[1].blob = Undefined
          /\ IsBlob(r.variants[2].blob)
    /\ \E r \in store : IsBlob(r.sourceImage)

\* The step makes a getAllHistory or an exportAllData call.
ReadStep == call'.op \in {"getAll", "export"} /\ (call' # call \/ ret' # ret)

\* The record the write transaction in flight puts.
RecordWritten ==
    IF txn.owner = "put" THEN StripUrls(call.arg) ELSE ImportedItem(ItemInFlight)

\* C29: reads are read-only.  A step in which getAllHistory or exportAllData
\* runs opens no write transaction and leaves the store and the tracked set
\* as they are, and the document exportAllData resolves with carries no url.
\* The store changes only when a write transaction commits: a record is
\* replaced or added only by the put of saveHistoryItem or importData, as
\* the whole record put under its id, and a record goes only by
\* deleteHistoryItem or clearAllHistory.
C29_ReadsLeaveStore ==
    [][ /\ ReadStep =>
              /\ store' = store
              /\ txn = NoTxn /\ txn' = NoTxn
              /\ activeUrls' = activeUrls
              /\ (call'.op = "export" /\ ret'.status = "resolved") =>
                    \A j \in DOMAIN ret'.value.value.items.elems :
                       LET e == ret'.value.value.items.elems[j]
                       IN  \A i \in DOMAIN e.variants : "url" \notin DOMAIN e.variants[i]
        /\ store' # store =>
              /\ txn # NoTxn /\ txn' = NoTxn
              /\ IF txn.owner \in {"put", "import"}
                 THEN /\ store' \ store = {RecordWritten}
                      /\ \A r \in store \ store' : r.id = RecordWritten.id
                 ELSE /\ store' \subseteq store
                      /\ txn.owner = "delete" => \A r \in store \ store' : r.id = call.arg.s
                      /\ txn.owner = "clear" => store' = {} ]_vars

\* C29 witness: exportAllData has resolved with two items on a store of two
\* records, one of them with variant blobs, and the store holds both still.
C29_Witness_ReadTwice ==
    /\ ResolvedCall("export")
    /\ Cardinality(store) = 2
    /\ Len(ExportedDoc.items.elems) = 2
    /\ \E r \in store : \E i \in DOMAIN r.variants : IsBlob(r.variants[i].blob)

\* The step makes a dbService call that awaits initDB().
OpeningStep ==
    /\ Idle
    /\ call' # call \/ ret' # ret
    /\ ~(call'.op = "import" /\ DocumentRejected(call'.arg))

\* C24: opening the store.  A call whose open succeeds leaves a database of
\* version DB_VERSION with the one object store, creates that store only when
\* the database did not have it, and leaves every record as it is; a call
\* whose open fails rejects with the error of the open, starts no
\* transaction, and leaves the database and every record as they are.  So
\* what getAllHistory returns is the store as the earlier calls left it,
\* however many opens came in between.
C24_OpenKeepsRecords ==
    [][ /\ OpeningStep =>
              /\ store' = store
              /\ IF ret'.status = "rejected" /\ ret'.error = "open error"
                 THEN /\ db' = db
                      /\ txn' = NoTxn
                      /\ call'.pc = "done"
                 ELSE /\ db'.version = DB_VERSION
                      /\ db'.stores = {STORE_NAME}
                      /\ STORE_NAME \in db.stores => db' = db
        /\ ~OpeningStep => db' = db
        /\ (call'.op = "getAll" /\ ret'.status = "resolved") =>
              { ret'.value[j].id : j \in DOMAIN ret'.value } = { r.id : r \in store' } ]_vars

\* C24 witness: the database was created and a record stored by earlier
\* calls; then the open of a saveHistoryItem call failed: the call rejected
\* with the open's error and the record is stored still.
C24_Witness_FailedOpen ==
    /\ RejectedCall("put")
    /\ ret.error = "open error"
    /\ txn = NoTxn
    /\ db.version = DB_VERSION
    /\ store # {}
    /\ store = call.before

\* The positions in the commit log of the calls that put a record with id.
CommitsOf(id) == { k \in DOMAIN puts.log : puts.calls[puts.log[k]].item.id = id }

\* The record the call at position k of the commit log stored.
Committed(k) == StripUrls(puts.calls[puts.log[k]].item)

\* C21: saveHistoryItem calls side by side.  For every id, the store holds
\* under it the record of the call that committed last among the committed
\* calls for that id, and what it held before when no call for that id has
\* committed; and when two calls for different ids have committed, the store
\* holds both records and is the store either order of the two puts gives.
C21_ConcurrentPuts ==
    /\ \A id \in Ids :
          { r \in store : r.id = id } =
             IF CommitsOf(id) = {}
             THEN { r \in puts.before : r.id = id }
             ELSE { Committed(CHOOSE k \in CommitsOf(id) : \A l \in CommitsOf(id) : l <= k) }
    /\ (Len(puts.log) = 2 /\ Len(puts.calls) = 2 /\ Committed(1).id # Committed(2).id) =>
          /\ Committed(1) \in store /\ Committed(2) \in store
          /\ store = PutRecord(PutRecord(puts.before, Committed(1)), Committed(2))
          /\ store = PutRecord(PutRecord(puts.before, Committed(2)), Committed(1))

\* C21 witness: two calls made side by side put records under different
\* ids, on a store that held another record under one of them, and both
\* committed, the call made second first.
C21_Witness_BothCommitted ==
    /\ puts.log = <<2, 1>>
    /\ Committed(1).id # Committed(2).id
    /\ puts.before # {}
    /\ store = {Committed(1), Committed(2)}
    /\ \A r \in puts.before : r \notin store

\* C25: the storage probes.  getStorageEstimate resolves with null on a host
\* without navigator.storage.estimate; otherwise with the host's usage and
\* quota, each 0 when the host leaves it out, and with percentUsed 0 when
\* quota is 0 and usage / quota * 100 otherwise.  requestPersistentStorage
\* and isStoragePersistent resolve with false on a host without the method,
\* and with the host's answer otherwise.
C25_ProbeFallbacks ==
    /\ call.op = "estimate" =>
          IF call.arg = NoStorage \/ call.arg.answer = NoMethod
          THEN ret = Resolved(JsonNull)
          ELSE LET usage == IF "usage" \in DOMAIN call.arg.answer
                            THEN call.arg.answer.usage ELSE 0
                   quota == IF "quota" \in DOMAIN call.arg.answer
                            THEN call.arg.answer.quota ELSE 0
               IN  /\ ret.status = "resolved"
                   /\ ret.value.usage = usage
                   /\ ret.value.quota = quota
                   /\ ret.value.percentUsed.k = "number"
                   /\ ret.value.percentUsed.den > 0
                   /\ quota = 0 => ret.value.percentUsed.num = 0
                   /\ quota # 0 =>
                         ret.value.percentUsed.num * quota
                            = usage * 100 * ret.value.percentUsed.den
    /\ call.op \in {"persist", "persisted"} =>
          IF call.arg = NoStorage \/ call.arg.answer = NoMethod
          THEN ret = Resolved(Bool(FALSE))
          ELSE ret = Resolved(call.arg.answer)

\* C25 witness: the estimate of a host that reports usage and leaves quota
\* out: quota counts as 0 and percentUsed is 0.
C25_Witness_QuotaMissing ==
    /\ call.op = "estimate"
    /\ call.arg # NoStorage
    /\ call.arg.answer # NoMethod
    /\ DOMAIN call.arg.answer = {"usage"}
    /\ call.arg.answer.usage > 0
    /\ ret.value.quota = 0
    /\ ret.value.percentUsed.num = 0

\* The exports a handler has started and not yet finished.
ExportsInFlight == {t \in DOMAIN tasks : tasks[t].kind = "export"}

\* C26: the Export Backup button is disabled while the history list on
\* screen is empty and while an export is in progress: whenever the UI
\* starts an export, the history list is not empty and no other export is
\* in flight.
C26_ExportNeedsHistory ==
    [][Cardinality(ExportsInFlight') > Cardinality(ExportsInFlight)
         => /\ ui.history # << >>
            /\ ~ui.isExporting
            /\ ExportsInFlight = {}]_vars

\* An export started from a history list of one record is in flight.
C26_Witness_ExportStarted ==
    /\ mounted
    /\ ExportsInFlight # {}
    /\ ui.isExporting
    /\ Len(ui.history) = 1

\* The analyses and the generations a handler has started and not finished.
AnalysesInFlight == {t \in DOMAIN tasks : tasks[t].kind = "analyze"}

GenerationsInFlight == {t \in DOMAIN tasks : tasks[t].kind = "generate"}

\* C27: the Render Assets button is disabled whenever there is no metadata
\* or an analysis is in progress, and a generation starts only with a source
\* image, its blob and metadata present.
C27_RenderGuarded ==
    [][/\ (ui'.metadata = JsonNull \/ AnalysesInFlight' # {}) => RenderDisabled(ui')
       /\ Cardinality(GenerationsInFlight') > Cardinality(GenerationsInFlight)
            => /\ ui.sourceImage # JsonNull
               /\ ui.sourceBlob # JsonNull
               /\ ui.metadata # JsonNull]_vars

\* C30: whenever no handler is suspended, every non-empty url of the result
\* gallery and of the history list is in the tracked set.
C30_LiveHandles ==
    (mounted /\ tasks = << >>) => \A h \in UiUrls(ui) : Has(activeUrls, h)

\* C31: whenever no handler is suspended, every handle in the tracked set
\* is a url of the result gallery or of the history list.
C31_NoStaleHandles ==
    (mounted /\ tasks = << >>) => \A h \in Range(activeUrls) : h \in UiUrls(ui)

\* C32: once the cleanup of the effect has run, the tracked set is empty and
\* stays empty, whatever handlers started before it do afterwards.
C32_TeardownDrains == ~mounted => activeUrls = << >>

\* The handlers of App that write to the store.
StoreHandlers == {"generate", "delete", "clear", "import"}

ListedIds(state) == {state.history[i].id : i \in DOMAIN state.history}

StoreIds(s) == {r.id : r \in s}

\* C33: when a handler that writes to the store finishes, with success or
\* failure, and leaves no handler running, the ids of the history list on
\* screen are the ids of the records in the store.
C33_HistoryMirrorsStore ==
    [][(/\ mounted'
        /\ Len(tasks) = 1 /\ tasks[1].kind \in StoreHandlers
        /\ tasks' = << >>)
         => ListedIds(ui') = StoreIds(store')]_vars

\* The records of s whose id no item of the document being imported has.
OutsideDocument(s) ==
    {r \in s : \A j \in DOMAIN DocItems(call.arg) : DocItems(call.arg)[j].id # r.id}

\* C34: importData merges.  While and after a document is imported, the
\* records whose id is not in the document are those of the store before the
\* call, unchanged; every other record of the store is one the store had
\* before or the record of an item of the document; and once every write
\* of a resolved import is committed, the store holds, for each id of the
\* document, the record of the last item with that id.
C34_ImportMerges ==
    (call.op = "import" /\ ~DocumentRejected(call.arg)) =>
        LET items == DocItems(call.arg)
        IN  /\ OutsideDocument(store) = OutsideDocument(call.before)
            /\ \A r \in store \ call.before :
                   \E j \in DOMAIN items :
                      ~DecodeFails(items[j]) /\ r = ImportedItem(items[j])
            /\ (ResolvedCall("import") /\ txn = NoTxn
                    /\ call.committed = call.importedCount) =>
                  \A j \in DOMAIN items :
                     (\A l \in j + 1 .. Len(items) : items[l].id # items[j].id) =>
                        ImportedItem(items[j]) \in store

\* C34 witness: a resolved import, all writes committed, replaced a record
\* of the store and left another one, whose id the document does not have.
C34_Witness_MergedIntoStore ==
    /\ ResolvedCall("import") /\ txn = NoTxn
    /\ call.committed = call.importedCount
    /\ OutsideDocument(call.before) # {}
    /\ OutsideDocument(store) = OutsideDocument(call.before)
    /\ \E r \in call.before : r \notin store

\* The step in which the saveHistoryItem call of generation t resolves.
SaveResolves(t) ==
    At(t, "save") /\ Len(tasks') = Len(tasks) /\ tasks'[t] = Refreshing("generate")

\* C35: saveHistoryItem leaves the caller's item alone.  When the save of a
\* generation resolves, the stored record has every url cleared, and the
\* results on screen, among them the item's variants, are what they were
\* before the call, each variant of the item with its url.
C35_CallerItemKept ==
    [][\A t \in DOMAIN tasks :
          SaveResolves(t) =>
             /\ \E r \in store' :
                   /\ r.id = tasks[t].item.id
                   /\ \A j \in DOMAIN r.variants : r.variants[j].url = ""
             /\ ui'.results = ui.results
             /\ \A i \in DOMAIN ui.results :
                   \A j \in DOMAIN tasks[t].item.variants :
                      ui.results[i] = tasks[t].item.variants[j] =>
                         ui'.results[i].url = tasks[t].item.variants[j].url]_vars

\* C35 witness: a generation's save has resolved; the gallery shows its
\* variants with their urls and the stored record has them without.
C35_Witness_SavedAndShown ==
    /\ mounted
    /\ \E t \in DOMAIN tasks : tasks[t] = Refreshing("generate")
    /\ ui.results # << >>
    /\ \A i \in DOMAIN ui.results : ui.results[i].url # ""
    /\ \E r \in store :
          /\ Text(r.id) = ui.currentHistoryId
          /\ Len(r.variants) = Len(ui.results)
          /\ \A j \in DOMAIN r.variants :
                r.variants[j].id = ui.results[j].id /\ r.variants[j].url = ""

\* The step in which generation t, its calls resolved, builds its record.
BuildsRecord(t) ==
    At(t, "calls") /\ Len(tasks') = Len(tasks) /\ tasks'[t].pc = "save"

\* Generation t writes under the record id of the render it was started
\* from, or under a new id when that render had none, and its resolved save
\* leaves one record of that id and makes the id the current one.
WritesUnderCurrentId(t) ==
    /\ BuildsRecord(t) =>
          IF tasks[t].c.currentHistoryId # JsonNull
          THEN Text(tasks'[t].item.id) = tasks[t].c.currentHistoryId
          ELSE tasks'[t].item.id \notin StoreIds(store) \cup ListedIds(ui)
    /\ SaveResolves(t) =>
          /\ Cardinality({r \in store' : r.id = tasks[t].item.id}) = 1
          /\ mounted => ui'.currentHistoryId = Text(tasks[t].item.id)

\* The steps the claim lets end a project: an upload, a restore, a reset.
\* Each takes a user event and leaves the number of handlers or raises it
\* by the analysis of the upload.
ProjectEnds ==
    /\ events' = events + 1
    /\ \/ tasks' = tasks
       \/ Len(tasks') = Len(tasks) + 1 /\ tasks'[Len(tasks')].kind = "analyze"

\* A delete or a clear resolves.
RemovalResolves ==
    \E t \in DOMAIN tasks :
       /\ tasks[t].kind \in {"delete", "clear"} /\ tasks[t].pc = tasks[t].kind
       /\ store' # store \/ ui' # ui \/ tasks' # tasks

\* C36 as claimed: every generation writes under the current record id or,
\* without one, under a new id that it makes the current one, and between
\* generations only an upload, a restore or a reset changes the current
\* record id, so that successive generations of a project write to one id.
C36_SameRecordId ==
    [][/\ \A t \in DOMAIN tasks : WritesUnderCurrentId(t)
       /\ (mounted' /\ ui'.currentHistoryId # ui.currentHistoryId) =>
             \/ \E t \in DOMAIN tasks : SaveResolves(t)
             \/ ProjectEnds]_vars

\* C36, amended: as above, and the current record id also changes when a
\* delete or a clear of the history resolves.
C36_SameRecordIdUnlessRemoved ==
    [][/\ \A t \in DOMAIN tasks : WritesUnderCurrentId(t)
       /\ (mounted' /\ ui'.currentHistoryId # ui.currentHistoryId) =>
             \/ \E t \in DOMAIN tasks : SaveResolves(t)
             \/ ProjectEnds
             \/ RemovalResolves]_vars

\* C36 witness: the second of two generations of one project has been
\* saved; the record of the current id holds the variants of both, and the
\* history list still shows the record as the first one saved it.
C36_Witness_TwoGenerations ==
    /\ mounted
    /\ \E r \in store :
          /\ Text(r.id) = ui.currentHistoryId
          /\ \E b1, b2 \in 1 .. batches :
                /\ b1 < b2
                /\ r.variants[1].id = GenerateId(b2, 1)
                /\ r.variants[Len(r.variants)].id = GenerateId(b1, 1)
          /\ \E i \in DOMAIN ui.history :
                /\ ui.history[i].id = r.id
                /\ Len(ui.history[i].variants) < Len(r.variants)
                /\ ui.history[i].variants[1].id = r.variants[Len(r.variants)].id

\* The render c shows record h as handleRestore left it: h is the current
\* record and the results are its variants.
Restored(c, h) ==
    /\ c.currentHistoryId = Text(h.id)
    /\ c.results = h.variants
    /\ c.results # << >>

\* The source image x is that of record h: its binary, or the binary its
\* data-URL string encodes.
SourceOf(x, h) ==
    IF IsBlob(h.sourceImage)
    THEN x = h.sourceImage
    ELSE x = h.sourceImage \/ (h.sourceImage.k = "dataurl" /\ x = base64ToBlob(h.sourceImage))

\* C37: a generation started on a restored record builds a record with the
\* restored record's id and source image, whether that is a binary or a
\* legacy string.
C37_RestoredRecordRewritten ==
    [][\A t \in DOMAIN tasks :
          BuildsRecord(t) =>
             \A i \in DOMAIN tasks[t].c.history :
                Restored(tasks[t].c, tasks[t].c.history[i]) =>
                   /\ tasks'[t].item.id = tasks[t].c.history[i].id
                   /\ SourceOf(tasks'[t].item.sourceImage, tasks[t].c.history[i])]_vars

\* The variants generation t creates, in the order of its calls.
NewVariantIds(t) == [j \in 1 .. tasks[t].n |-> GenerateId(batches + 1, j)]

Shown(results) == [i \in DOMAIN results |-> results[i].id]

\* C38: the record a generation builds has the new variants first, in
\* generation order, then the results displayed until then, in their order,
\* cut to 10 variants, and the gallery shows the same sequence.
C38_NewVariantsFirst ==
    [][\A t \in DOMAIN tasks :
          (mounted /\ BuildsRecord(t)) =>
             /\ Shown(tasks'[t].item.variants)
                   = Take(NewVariantIds(t) \o Shown(ui.results), 10)
             /\ ui'.results = tasks'[t].item.variants]_vars

\* The results without their i-th variant.
Without(results, i) == SubSeq(results, 1, i - 1) \o SubSeq(results, i + 1, Len(results))

\* A click that takes one variant out of the gallery and changes nothing
\* else of the state of App.
RemovesVariant ==
    /\ events' = events + 1 /\ tasks' = tasks
    /\ \E i \in DOMAIN ui.results : ui' = [ui EXCEPT !.results = Without(ui.results, i)]

\* A click that empties the project: no source, no metadata, no results, no
\* current record.
Resets ==
    /\ events' = events + 1 /\ tasks' = tasks
    /\ ui' # ui
    /\ ui' = [ui EXCEPT !.sourceImage = JsonNull, !.sourceBlob = JsonNull,
                        !.metadata = JsonNull, !.results = << >>,
                        !.currentHistoryId = JsonNull]

\* C39: removing a variant from the gallery and starting a new project
\* change the state of App and the tracked urls only: the store, its
\* transactions and the calls on it are as before, so the stored record
\* still has the variant.
C39_GalleryOnly ==
    [][(RemovesVariant \/ Resets) =>
          /\ <<store, txn, call, ret, db>>' = <<store, txn, call, ret, db>>
          /\ ui'.history = ui.history]_vars

\* C39 witness: a variant of the restored record was removed from the
\* gallery; the stored record and the history list still have it.
C39_Witness_RemovedStillStored ==
    /\ mounted /\ tasks = << >>
    /\ ui.results # << >>
    /\ \E r \in store :
          /\ Text(r.id) = ui.currentHistoryId
          /\ Len(r.variants) = Len(ui.results) + 1
          /\ \E j \in DOMAIN r.variants :
                \A i \in DOMAIN ui.results : ui.results[i].id # r.variants[j].id
          /\ \E i \in DOMAIN ui.history : VariantIds(ui.history[i]) = VariantIds(r)

====
